---- MODULE Spec2Model ----
(***************************************************************************)
(* A state-machine model of the lazy evaluator of src/libexpr/eval.cc.     *)
(*                                                                         *)
(* The C++ evaluator is a set of mutually recursive functions (eval,       *)
(* forceValue, callFunction, eqValues, ...) that mutate a graph of Value   *)
(* cells, Bindings maps and Env frames.  The model keeps that graph in     *)
(* vals / binds / envs, the C++ call stack in stack (one frame per pending *)
(* caller, holding the caller's locals and the place it resumes at) and    *)
(* the function that is running in ctl.  Every action is the piece of one  *)
(* C++ function between two calls.                                         *)
(*                                                                         *)
(* A Value is a type tag plus a union; the union is modelled by three      *)
(* slots a, b, c that the variants share:                                  *)
(*   a: integer | boolean | attrs | list.length | thunk.env | lambda.env | *)
(*      val | app.left | primOp.fun | primOpApp.left                       *)
(*   b: list.elems | thunk.expr | lambda.pat | app.right | primOp.arity |  *)
(*      primOpApp.right                                                    *)
(*   c: lambda.body | primOpApp.argsLeft                                   *)
(* Slot contents are tagged (<<"env", n>>, <<"bnd", n>>, <<"val", n>>,     *)
(* <<"int", i>>, ...) so that reading a slot through the wrong variant is  *)
(* detected and treated as undefined behaviour.                            *)
(***************************************************************************)
EXTENDS Integers, Sequences, FiniteSets, TLC

VARIABLES
    pi,        \* index of the expression under evaluation (fixed by Init)
    vals,      \* the Value cells, by address
    binds,     \* the Bindings maps: symbol -> address of the Value cell
    envs,      \* the Env frames: [up, b] with b the index of its Bindings
    stack,     \* pending C++ callers, innermost last
    ctl,       \* the running function and its arguments
    outcome,   \* results of the top-level demands made so far
    evaluated, \* history: thunk cells whose expression was evaluated successfully
    twice,     \* history: thunk cells evaluated successfully more than once
    primLog,   \* history: the argument vectors the primops were invoked with
    srcToStore,    \* EvalState::srcToStore: canonical path -> store path
    readOnlyMode,  \* the global setting readOnlyMode
    storeLog   \* history: the calls made to the store

vars == <<pi, vals, binds, envs, stack, ctl, outcome, evaluated, twice, primLog,
          srcToStore, readOnlyMode, storeLog>>

(***************************************************************************)
(* Bounds of the model.                                                    *)
(***************************************************************************)
MaxDepth == 30      \* depth of the host stack, in pending calls
MaxDemands == 2     \* top-level demands made on the root value
MaxChain == 3       \* environments on an `up' chain handed to lookupVar

(***************************************************************************)
(* Expressions (the AST handed over by the parser).                        *)
(***************************************************************************)
sWith == "<with>"
sNoAlias == "<noalias>"
sLetBody == "<let-body>"

Var(n) == [k |-> "Var", name |-> n]
IntLit(i) == [k |-> "Int", i |-> i]
Bind(n, e) == [name |-> n, e |-> e]
Attrs(bs) == [k |-> "Attrs", es |-> bs]
Rec(rbs, nrbs) == [k |-> "Rec", rbnds |-> rbs, nrbnds |-> nrbs]
Select(e, n) == [k |-> "Select", e1 |-> e, name |-> n]
VarPat(n) == [p |-> "VarPat", name |-> n]
NoDefaultValue == [d |-> "NoDefaultValue"]
DefaultValue(e) == [d |-> "DefaultValue", e |-> e]
Formal(n, d) == [name |-> n, def |-> d]
AttrsPat(fs, ell, n) == [p |-> "AttrsPat", formals |-> fs, ellipsis |-> ell, name |-> n]
Function(pat, body) == [k |-> "Function", pat |-> pat, body |-> body]
Call(f, x) == [k |-> "Call", fun |-> f, arg |-> x]
With(as, body) == [k |-> "With", attrs |-> as, body |-> body]
List(es) == [k |-> "List", es |-> es]
OpEq(x, y) == [k |-> "OpEq", e1 |-> x, e2 |-> y]
OpNEq(x, y) == [k |-> "OpNEq", e1 |-> x, e2 |-> y]
OpUpdate(x, y) == [k |-> "OpUpdate", e1 |-> x, e2 |-> y]
If(x, y, z) == [k |-> "If", e1 |-> x, e2 |-> y, e3 |-> z]
\* A string is the sequence of its pieces: "" is <<>>, and the concatenation
\* of strings is the concatenation of the sequences.
Str(s) == [k |-> "Str", s |-> s]
Path(s) == [k |-> "Path", s |-> s]
ConcatStrings(es) == [k |-> "ConcatStrings", es |-> es]

drvExtension == ".drv"
\* `let bs in body' reaches the evaluator as (rec { bs; <let-body> = body; }).<let-body>
Let(bs, body) == Select(Rec(Append(bs, Bind(sLetBody, body)), <<>>), sLetBody)

(***************************************************************************)
(* Values.                                                                 *)
(***************************************************************************)
Nil == <<"nil">>
EnvP(n) == <<"env", n>>
BndP(n) == <<"bnd", n>>
ValP(n) == <<"val", n>>
IsEnvP(p) == p[1] = "env"
IsBndP(p) == p[1] = "bnd"

\* A cell nothing has been stored in yet (`Value v;').
Uninit == [type |-> "Uninit", a |-> Nil, b |-> Nil, c |-> Nil, h |-> <<>>]

mkInt(v, i) == [v EXCEPT !.type = "Int", !.a = <<"int", i>>]
mkBool(v, x) == [v EXCEPT !.type = "Bool", !.a = <<"bool", x>>]
mkThunk(v, env, e) == [v EXCEPT !.type = "Thunk", !.a = env, !.b = <<"expr", e>>]
mkCopy(v, src) == [v EXCEPT !.type = "Copy", !.a = ValP(src)]
mkAttrs(v, bnd) == [v EXCEPT !.type = "Attrs", !.a = BndP(bnd)]
mkList(v, length, elems) == [v EXCEPT !.type = "List", !.a = <<"int", length>>, !.b = ValP(elems)]
mkString(v, s, context) ==
    [v EXCEPT !.type = "Str", !.a = <<"str", s>>, !.b = <<"ctx", context>>]
mkPath(v, s) == [v EXCEPT !.type = "Path", !.a = <<"path", s>>]
mkLambda(v, env, pat, body) ==
    [v EXCEPT !.type = "Lambda", !.a = env, !.b = <<"pat", pat>>, !.c = <<"expr", body>>]
mkPrimOp(v, fun, arity) ==
    [v EXCEPT !.type = "PrimOp", !.a = <<"fun", fun>>, !.b = <<"int", arity>>]

Top == stack[Len(stack)]
Pop == SubSeq(stack, 1, Len(stack) - 1)

Range(s) == {s[i] : i \in 1..Len(s)}
Names(bs) == {bs[i].name : i \in 1..Len(bs)}
IndexOf(bs, n) == CHOOSE i \in 1..Len(bs) : bs[i].name = n

\* Bindings is a std::map: iteration goes through the keys in the order of the
\* symbols.
SymOrder == <<"a", "b", "c", "f", "g", "x", "y", "z", "outPath", "type",
              "true", "builtins", "add", "prim1", "prim3",
              "__add", "__prim1", "__prim3", "<let-body>", "<with>">>
SymPos(s) == CHOOSE i \in 1..Len(SymOrder) : SymOrder[i] = s
RECURSIVE SortKeys(_)
SortKeys(S) ==
    IF S = {} THEN <<>>
    ELSE LET m == CHOOSE s \in S : \A t \in S : SymPos(s) <= SymPos(t)
         IN  <<m>> \o SortKeys(S \ {m})
\* The cells of a Bindings in iteration order.
Cells(bnd) == LET ks == SortKeys(DOMAIN binds[bnd])
              IN  [i \in 1..Len(ks) |-> binds[bnd][ks[i]]]

(***************************************************************************)
(* Control: the function that is running, and what a call hands back.      *)
(***************************************************************************)
Eval(env, e, v) == [op |-> "eval", env |-> env, e |-> e, v |-> v]
Force(v) == [op |-> "force", v |-> v]
StrictForce(v) == [op |-> "strictForce", v |-> v]
CallFunction(fun, arg, v) == [op |-> "call", fun |-> fun, arg |-> arg, v |-> v]
EqValues(v1, v2) == [op |-> "eqValues", v1 |-> v1, v2 |-> v2]
CoerceToString(v, context, coerceMore, copyToStore) ==
    [op |-> "coerceToString", v |-> v, context |-> context,
     coerceMore |-> coerceMore, copyToStore |-> copyToStore]
RetStr(s, context) ==
    [op |-> "ret", of |-> "coerceToString", v |-> 0, val |-> FALSE, s |-> s,
     context |-> context]
Ret(of, v) == [op |-> "ret", of |-> of, v |-> v, val |-> FALSE]
RetBool(of, x) == [op |-> "ret", of |-> of, v |-> 0, val |-> x]
Throw(err) == [op |-> "throw", err |-> err, prefix |-> <<>>]
Undefined(what) == [op |-> "ub", what |-> what]
Crashed(why) == [op |-> "crashed", why |-> why]
Idle == [op |-> "idle"]

\* A call: the caller's frame fr is pushed and c runs; the host stack is finite.
Invoke(c, fr) ==
    IF Len(stack) >= MaxDepth
    THEN stack' = stack /\ ctl' = Crashed("stack overflow")
    ELSE stack' = Append(stack, fr) /\ ctl' = c

\* The caller resumes after a call: its frame becomes fr and c runs.
Resume(c, fr) == stack' = Append(Pop, fr) /\ ctl' = c

\* The running callee was entered from the frame on top; it is done.
Return(c) == stack' = Pop /\ ctl' = c

hist == <<evaluated, twice, primLog>>

storeState == <<srcToStore, readOnlyMode, storeLog>>

(***************************************************************************)
(* Name resolution.  The result is the address of the Value cell found,    *)
(* NotFound when lookupVar throws, or Wild when the environment pointer    *)
(* does not point to an Env (undefined behaviour).                         *)
(***************************************************************************)
NotFound == 0
Wild == 0 - 1

\* The other rule: inner `with' frames take precedence.
RECURSIVE lookupWithInner(_, _)
lookupWithInner(env, name) ==
    IF env = Nil THEN NotFound
    ELSE LET bs == binds[envs[env[2]].b]
             as == binds[vals[bs[sWith]].a[2]]
         IN  IF sWith \in DOMAIN bs /\ name \in DOMAIN as THEN as[name]
             ELSE lookupWithInner(envs[env[2]].up, name)

RECURSIVE lookupWith(_, _)
lookupWith(env, name) ==
    IF env = Nil THEN NotFound
    ELSE LET v == lookupWith(envs[env[2]].up, name)
             bs == binds[envs[env[2]].b]
         IN  IF v # NotFound THEN v
             ELSE IF sWith \notin DOMAIN bs THEN NotFound
             ELSE LET as == binds[vals[bs[sWith]].a[2]]
                  IN  IF name \in DOMAIN as THEN as[name] ELSE NotFound

RECURSIVE lookupRegular(_, _)
lookupRegular(env2, name) ==
    IF env2 = Nil THEN NotFound
    ELSE LET bs == binds[envs[env2[2]].b]
         IN  IF name \in DOMAIN bs THEN bs[name]
             ELSE lookupRegular(envs[env2[2]].up, name)

lookupVar(env, name) ==
    IF ~IsEnvP(env) THEN Wild
    ELSE LET r == lookupRegular(env, name)
         IN  IF r # NotFound THEN r ELSE lookupWith(env, name)

(***************************************************************************)
(* The base environment and the programs.                                  *)
(***************************************************************************)
baseEnv == EnvP(1)

\* name -> name with a leading "__" removed
StripUnderscores(name) ==
    CASE name = "__add" -> "add"
      [] name = "__prim1" -> "prim1"
      [] name = "__prim3" -> "prim3"
      [] OTHER -> name

\* The heap right after `EvalState::EvalState': baseEnv with builtins = { }.
EmptyBase ==
    [vals |-> <<mkAttrs(Uninit, 2)>>,
     binds |-> <<("builtins" :> 1), <<>>>>]

addConstant(H, name, v) ==
    LET n == Len(H.vals)
        bb == H.vals[H.binds[1]["builtins"]].a[2]
    IN  [vals |-> H.vals \o <<v, v>>,
         binds |-> [H.binds EXCEPT ![1] = (name :> (n + 1)) @@ @,
                                    ![bb] = (StripUnderscores(name) :> (n + 2)) @@ @]]

addPrimOp(H, name, arity, primOp) ==
    LET v == mkPrimOp(Uninit, primOp, arity)
        n == Len(H.vals)
        bb == H.vals[H.binds[1]["builtins"]].a[2]
    IN  [vals |-> H.vals \o <<v, v>>,
         binds |-> [H.binds EXCEPT ![1] = (name :> (n + 1)) @@ @,
                                    ![bb] = (StripUnderscores(name) :> (n + 2)) @@ @]]

createBaseEnv ==
    addPrimOp(addPrimOp(addPrimOp(addPrimOp(
        addConstant(EmptyBase, "true", mkBool(Uninit, TRUE)),
        "__prim1", 1, "sum"), "__add", 2, "sum"), "__prim3", 3, "sum"),
        "toString", 1, "toString")

Bottom == Call(IntLit(0), IntLit(0))

\* let v = e; in v == v
SelfEq(e) == Let(<<Bind("x", e)>>, OpEq(Var("x"), Var("x")))

LetBottom == Let(<<Bind("x", Bottom)>>, IntLit(1))

LoopProg ==
    Let(<<Bind("f", Function(VarPat("x"), Call(Var("f"), Var("x"))))>>, Call(Var("f"), IntLit(1)))

\* Calls of a function with an attribute-set pattern: the pattern has none or
\* one formal for each of x and y, without or with a default, it has the
\* ellipsis or not and an alias or not; the argument has any of the attributes
\* x, y and a.  k numbers the combinations.
PatFormal(nm, c, dflt) ==
    IF c = 0 THEN <<>>
    ELSE IF c = 1 THEN <<Formal(nm, NoDefaultValue)>>
    ELSE <<Formal(nm, DefaultValue(dflt))>>

PatArg(nm, present) == IF present THEN <<Bind(nm, IntLit(1))>> ELSE <<>>

PatProg(k) ==
    LET fx == k % 3
        fy == (k \div 3) % 3
        ell == (k \div 9) % 2 = 1
        al == (k \div 18) % 2 = 1
        ks == (k \div 36) % 8
    IN  Call(Function(AttrsPat(PatFormal("x", fx, IntLit(7)) \o PatFormal("y", fy, Var("x")),
                               ell, IF al THEN "z" ELSE sNoAlias),
                      List(<<Var("x"), Var("y")>>)),
             Attrs(PatArg("x", ks % 2 = 1) \o PatArg("y", (ks \div 2) % 2 = 1)
                   \o PatArg("a", (ks \div 4) % 2 = 1)))

NPatProgs == 3 * 3 * 2 * 2 * 8

Corpus == <<
    IntLit(1),
    Select(Rec(<<Bind("x", Var("x"))>>, <<>>), "x"),
    Select(Rec(<<Bind("x", IntLit(1)), Bind("y", Var("x"))>>, <<>>), "y"),
    LetBottom,
    Attrs(<<Bind("a", Bottom), Bind("b", IntLit(2))>>),
    Select(Attrs(<<Bind("a", IntLit(1))>>), "b"),
    Function(VarPat("x"), Var("x")),
    Call(Function(VarPat("x"), Var("x")), IntLit(3)),
    Call(Call(Var("__add"), IntLit(1)), IntLit(2)),
    Call(Call(Call(Var("__prim3"), IntLit(1)), IntLit(2)), IntLit(3)),
    Let(<<Bind("g", Call(Var("__add"), IntLit(1)))>>, Call(Var("g"), Call(Var("g"), IntLit(5)))),
    Call(Function(AttrsPat(<<Formal("x", NoDefaultValue), Formal("y", DefaultValue(Call(Call(Var("__add"), Var("x")), IntLit(1))))>>, FALSE, sNoAlias), Var("y")),
         Attrs(<<Bind("x", IntLit(10))>>)),
    With(Attrs(<<Bind("x", IntLit(1))>>), With(Attrs(<<Bind("x", IntLit(2))>>), Var("x"))),
    LoopProg,
    List(<<IntLit(1), Bottom>>),
    Call(IntLit(1), IntLit(2)),
    Call(Call(Var("__add"), Attrs(<<>>)), IntLit(2)),
    OpEq(Attrs(<<Bind("a", IntLit(1))>>), Attrs(<<Bind("b", IntLit(1))>>)),
    OpNEq(List(<<IntLit(1), IntLit(2)>>), List(<<IntLit(1), IntLit(3)>>)),
    OpEq(Attrs(<<Bind("a", IntLit(1)), Bind("b", IntLit(2))>>), Attrs(<<Bind("a", IntLit(1)), Bind("b", IntLit(2))>>)),
    OpUpdate(Attrs(<<Bind("a", IntLit(1)), Bind("b", IntLit(2))>>), Attrs(<<Bind("b", IntLit(3)), Bind("c", Bottom)>>)),
    Select(Rec(<<Bind("x", OpUpdate(Attrs(<<Bind("a", IntLit(1))>>), Var("x")))>>, <<>>), "x"),
    Select(Rec(<<Bind("x", OpUpdate(Attrs(<<Bind("a", IntLit(1))>>), Bottom))>>, <<>>), "x"),
    Rec(<<Bind("z", Select(Var("x"), "a")), Bind("x", OpUpdate(Attrs(<<>>), Var("z")))>>, <<>>),
    OpUpdate(IntLit(1), Attrs(<<>>)),
    If(OpEq(IntLit(1), IntLit(1)), IntLit(7), Bottom),
    If(IntLit(1), IntLit(7), Bottom),
    If(Var("true"), List(<<Attrs(<<Bind("a", IntLit(1))>>)>>), Bottom),
    \* equality of a value with itself
    SelfEq(List(<<Function(VarPat("x"), Var("x"))>>)),
    SelfEq(List(<<IntLit(1), Str(<<"a">>), Path(<<"/p">>)>>)),
    SelfEq(Function(VarPat("x"), Var("x"))),
    SelfEq(Attrs(<<Bind("a", IntLit(1)), Bind("b", List(<<IntLit(2)>>))>>)),
    SelfEq(Attrs(<<Bind("a", Function(VarPat("x"), Var("x")))>>)),
    SelfEq(Str(<<"a">>)),
    SelfEq(Path(<<"/p">>)),
    SelfEq(Var("__add")),
    SelfEq(Call(Var("__add"), IntLit(1))),
    SelfEq(IntLit(1)),
    SelfEq(Var("true")),
    SelfEq(List(<<Bottom>>)),
    OpEq(Str(<<"a">>), Str(<<"b">>)),
    \* string concatenation
    ConcatStrings(<<Path(<<"/p">>), Str(<<"/q">>)>>),
    ConcatStrings(<<Path(<<"/p">>), Path(<<"/.", "/q">>)>>),
    ConcatStrings(<<Path(<<"/p">>), ConcatStrings(<<Str(<<>>), Path(<<"/q">>)>>)>>),
    ConcatStrings(<<Str(<<"a">>), Path(<<"/p">>)>>),
    ConcatStrings(<<Str(<<>>), Path(<<"/p">>),
                    ConcatStrings(<<Str(<<"x">>), Path(<<"/q">>)>>)>>),
    ConcatStrings(<<Path(<<"/p">>), Attrs(<<Bind("outPath", Path(<<"/q">>))>>)>>),
    ConcatStrings(<<Str(<<"a">>), Attrs(<<Bind("outPath", Path(<<"/q">>))>>)>>),
    ConcatStrings(<<Path(<<"/p">>), IntLit(1)>>),
    ConcatStrings(<<Str(<<"a">>), Path(<<"/d", drvExtension>>)>>),
    ConcatStrings(<<Path(<<"/d", drvExtension>>), Str(<<"a">>)>>),
    ConcatStrings(<<Str(<<"a">>), Attrs(<<Bind("a", IntLit(1))>>)>>),
    ConcatStrings(<<Str(<<"a">>), Str(<<"b">>)>>),
    \* paths coerced to store paths more than once
    ConcatStrings(<<Str(<<>>), Path(<<"/p">>), Path(<<"/p">>)>>),
    ConcatStrings(<<Str(<<>>), Path(<<"/a", "/.", "/p">>), Path(<<"/a", "/b", "/..", "/p">>)>>),
    ConcatStrings(<<Str(<<>>), Path(<<"/p">>), Path(<<"/q">>), Path(<<"/p">>)>>),
    List(<<ConcatStrings(<<Str(<<>>), Path(<<"/p">>)>>),
           ConcatStrings(<<Str(<<"x">>), Path(<<"/p">>)>>)>>),
    Call(Var("toString"), Path(<<"/a", "/.", "/p">>)),
    Call(Var("toString"), Var("true")),
    Call(Var("toString"), Function(VarPat("x"), Var("x")))
>>

\* toString of a list of up to 3 elements, each an integer, an empty list, a
\* string or a list holding an empty list; k numbers the lists.
ListElems == <<IntLit(1), List(<<>>), Str(<<"a">>), List(<<List(<<>>)>>)>>

ListOf(len, k) == [i \in 1..len |-> ListElems[((k \div (4 ^ (i - 1))) % 4) + 1]]

ListProg(k) ==
    Call(Var("toString"),
         List(IF k < 1 THEN <<>>
              ELSE IF k < 5 THEN ListOf(1, k - 1)
              ELSE IF k < 21 THEN ListOf(2, k - 5)
              ELSE ListOf(3, k - 21)))

NListProgs == 1 + 4 + 16 + 64

Programs ==
    Corpus \o [k \in 1..NPatProgs |-> PatProg(k - 1)]
           \o [k \in 1..NListProgs |-> ListProg(k - 1)]

Prog == Programs[pi]

\* The value the driver demands: mkThunk_(root, Prog).
root == Len(createBaseEnv.vals) + 1

Init ==
    /\ pi \in 1..Len(Programs)
    /\ vals = Append(createBaseEnv.vals, mkThunk(Uninit, baseEnv, Programs[pi]))
    /\ binds = createBaseEnv.binds
    /\ envs = <<[up |-> Nil, b |-> 1]>>
    /\ stack = <<>>
    /\ ctl = Idle
    /\ outcome = <<>>
    /\ evaluated = {}
    /\ twice = {}
    /\ primLog = <<>>
    /\ srcToStore = <<>>
    /\ readOnlyMode \in BOOLEAN
    /\ storeLog = <<>>

(***************************************************************************)
(* The driver: the caller of the evaluator demands the root value, and     *)
(* sees either the value or the error.                                     *)
(***************************************************************************)
Demand ==
    /\ ctl.op = "idle"
    /\ Len(outcome) < MaxDemands
    /\ ctl' = Force(root)
    /\ UNCHANGED <<pi, storeState, vals, binds, envs, stack, outcome, hist>>

DemandStrict ==
    /\ ctl.op = "idle"
    /\ Len(outcome) < MaxDemands
    /\ ctl' = StrictForce(root)
    /\ UNCHANGED <<pi, storeState, vals, binds, envs, stack, outcome, hist>>

Finish ==
    /\ ctl.op = "ret"
    /\ stack = <<>>
    /\ outcome' = Append(outcome, "ok")
    /\ ctl' = Idle
    /\ UNCHANGED <<pi, storeState, vals, binds, envs, stack, hist>>

Fail ==
    /\ ctl.op = "throw"
    /\ stack = <<>>
    /\ outcome' = Append(outcome, ctl.err)
    /\ ctl' = Idle
    /\ UNCHANGED <<pi, storeState, vals, binds, envs, stack, hist>>

(***************************************************************************)
(* forceValue                                                              *)
(***************************************************************************)
ForceThunk ==
    /\ ctl.op = "force"
    /\ vals[ctl.v].type = "Thunk"
    /\ vals' = [vals EXCEPT ![ctl.v].type = "Blackhole"]
    /\ IF vals[ctl.v].b[1] = "expr"
       THEN Invoke(Eval(vals[ctl.v].a, vals[ctl.v].b[2], ctl.v),
                   [f |-> "Force", v |-> ctl.v, saved |-> "Thunk", orig |-> vals[ctl.v]])
       ELSE stack' = stack /\ ctl' = Undefined("thunk.expr")
    /\ UNCHANGED <<pi, storeState, binds, envs, outcome, hist>>

\* eval returned normally, but the cell is a thunk again: the result was not
\* kept in it.
RetForceNotKept ==
    /\ ctl.op = "ret"
    /\ stack # <<>>
    /\ Top.f = "Force"
    /\ vals' = [vals EXCEPT ![Top.v] = Top.orig]
    /\ Return(Ret("force", Top.v))
    /\ evaluated' = evaluated \cup {Top.v}
    /\ twice' = twice \cup ({Top.v} \cap evaluated)
    /\ UNCHANGED <<pi, storeState, binds, envs, outcome, primLog>>

\* eval returned normally, but the cell is left marked as being evaluated.
RetForceBlackhole ==
    /\ ctl.op = "ret"
    /\ stack # <<>>
    /\ Top.f = "Force"
    /\ vals' = [vals EXCEPT ![Top.v].type = "Blackhole"]
    /\ Return(Ret("force", Top.v))
    /\ evaluated' = evaluated \cup {Top.v}
    /\ twice' = twice \cup ({Top.v} \cap evaluated)
    /\ UNCHANGED <<pi, storeState, binds, envs, outcome, primLog>>

\* eval returned normally: the cell holds the result.
RetForce ==
    /\ ctl.op = "ret"
    /\ stack # <<>>
    /\ Top.f = "Force"
    /\ Return(Ret("force", Top.v))
    /\ evaluated' = evaluated \cup {Top.v}
    /\ twice' = twice \cup ({Top.v} \cap evaluated)
    /\ UNCHANGED <<pi, storeState, vals, binds, envs, outcome, primLog>>

\* catch (Error & e) { v.type = saved; throw; }
CatchForce ==
    /\ ctl.op = "throw"
    /\ stack # <<>>
    /\ Top.f = "Force"
    /\ vals' = [vals EXCEPT ![Top.v].type = Top.saved]
    /\ stack' = Pop
    /\ UNCHANGED <<pi, storeState, binds, envs, ctl, outcome, hist>>

ForceCopy ==
    /\ ctl.op = "force"
    /\ vals[ctl.v].type = "Copy"
    /\ Invoke(Force(vals[ctl.v].a[2]), [f |-> "ForceCopy", v |-> ctl.v])
    /\ UNCHANGED <<pi, storeState, vals, binds, envs, outcome, hist>>

RetForceCopy ==
    /\ ctl.op = "ret"
    /\ stack # <<>>
    /\ Top.f = "ForceCopy"
    /\ vals' = [vals EXCEPT ![Top.v] = vals[vals[Top.v].a[2]]]
    /\ Return(Ret("force", Top.v))
    /\ UNCHANGED <<pi, storeState, binds, envs, outcome, hist>>

ForceBlackhole ==
    /\ ctl.op = "force"
    /\ vals[ctl.v].type = "Blackhole"
    /\ ctl' = Throw("InfiniteRecursion")
    /\ UNCHANGED <<pi, storeState, vals, binds, envs, stack, outcome, hist>>

ForceOther ==
    /\ ctl.op = "force"
    /\ vals[ctl.v].type \notin {"Thunk", "Copy", "App", "Blackhole"}
    /\ ctl' = Ret("force", ctl.v)
    /\ UNCHANGED <<pi, storeState, vals, binds, envs, stack, outcome, hist>>

(***************************************************************************)
(* eval, one action per form of expression                                 *)
(***************************************************************************)
\* v = *v2 without forceValue(*v2)
EvalVarNoForce ==
    /\ ctl.op = "eval"
    /\ ctl.e.k = "Var"
    /\ LET v2 == lookupVar(ctl.env, ctl.e.name)
       IN  IF v2 = Wild THEN ctl' = Undefined("env") /\ vals' = vals
           ELSE IF v2 = NotFound THEN ctl' = Throw("UndefinedVariable") /\ vals' = vals
           ELSE ctl' = Ret("eval", ctl.v) /\ vals' = [vals EXCEPT ![ctl.v] = vals[v2]]
    /\ UNCHANGED <<pi, storeState, binds, envs, stack, outcome, hist>>

EvalVar ==
    /\ ctl.op = "eval"
    /\ ctl.e.k = "Var"
    /\ LET v2 == lookupVar(ctl.env, ctl.e.name)
       IN  IF v2 = Wild THEN stack' = stack /\ ctl' = Undefined("env")
           ELSE IF v2 = NotFound THEN stack' = stack /\ ctl' = Throw("UndefinedVariable")
           ELSE Invoke(Force(v2), [f |-> "Var", e |-> ctl.e, env |-> ctl.env, v |-> ctl.v, v2 |-> v2])
    /\ UNCHANGED <<pi, storeState, vals, binds, envs, outcome, hist>>

\* v = *v2
RetVar ==
    /\ ctl.op = "ret"
    /\ stack # <<>>
    /\ Top.f = "Var"
    /\ vals' = [vals EXCEPT ![Top.v] = vals[Top.v2]]
    /\ Return(Ret("eval", Top.v))
    /\ UNCHANGED <<pi, storeState, binds, envs, outcome, hist>>

EvalInt ==
    /\ ctl.op = "eval"
    /\ ctl.e.k = "Int"
    /\ vals' = [vals EXCEPT ![ctl.v] = mkInt(@, ctl.e.i)]
    /\ ctl' = Ret("eval", ctl.v)
    /\ UNCHANGED <<pi, storeState, binds, envs, stack, outcome, hist>>

\* assert(context == ATempty); mkString(v, s)
EvalStr ==
    /\ ctl.op = "eval"
    /\ ctl.e.k = "Str"
    /\ vals' = [vals EXCEPT ![ctl.v] = mkString(@, ctl.e.s, {})]
    /\ ctl' = Ret("eval", ctl.v)
    /\ UNCHANGED <<pi, storeState, binds, envs, stack, outcome, hist>>

EvalPath ==
    /\ ctl.op = "eval"
    /\ ctl.e.k = "Path"
    /\ vals' = [vals EXCEPT ![ctl.v] = mkPath(@, ctl.e.s)]
    /\ ctl' = Ret("eval", ctl.v)
    /\ UNCHANGED <<pi, storeState, binds, envs, stack, outcome, hist>>

\* PathSet context; ostringstream s; bool first = true, isPath = false;
\* Value vStr; then the first eval(env, *i, vStr).  parts is history: the
\* values of the components coerced so far.
EvalConcatStrings ==
    /\ ctl.op = "eval"
    /\ ctl.e.k = "ConcatStrings"
    /\ IF ctl.e.es = <<>>
       THEN /\ vals' = [vals EXCEPT ![ctl.v] = mkString(@, <<>>, {})]
            /\ ctl' = Ret("eval", ctl.v)
            /\ stack' = stack
       ELSE /\ vals' = Append(vals, Uninit)
            /\ Invoke(Eval(ctl.env, ctl.e.es[1], Len(vals) + 1),
                      [f |-> "Concat1", e |-> ctl.e, env |-> ctl.env, v |-> ctl.v,
                       vStr |-> Len(vals) + 1, i |-> 1, context |-> {}, s |-> <<>>,
                       first |-> TRUE, isPath |-> FALSE, parts |-> <<>>])
    /\ UNCHANGED <<pi, storeState, binds, envs, outcome, hist>>

\* isPath = vStr.type == tPath, for every component.
RetConcat1EveryTime ==
    /\ ctl.op = "ret"
    /\ stack # <<>>
    /\ Top.f = "Concat1"
    /\ LET isPath == vals[Top.vStr].type = "Path"
       IN  Resume(CoerceToString(Top.vStr, Top.context, FALSE, ~isPath),
                  [Top EXCEPT !.f = "Concat2", !.first = FALSE, !.isPath = isPath])
    /\ UNCHANGED <<pi, storeState, vals, binds, envs, outcome, hist>>

\* if (first) { isPath = vStr.type == tPath; first = false; }
\* coerceToString(vStr, context, false, !isPath)
RetConcat1 ==
    /\ ctl.op = "ret"
    /\ stack # <<>>
    /\ Top.f = "Concat1"
    /\ LET isPath == IF Top.first THEN vals[Top.vStr].type = "Path" ELSE Top.isPath
       IN  Resume(CoerceToString(Top.vStr, Top.context, FALSE, ~isPath),
                  [Top EXCEPT !.f = "Concat2", !.first = FALSE, !.isPath = isPath])
    /\ UNCHANGED <<pi, storeState, vals, binds, envs, outcome, hist>>

\* s << ...; the next component, or the end of the loop and the result.
RetConcat2 ==
    /\ ctl.op = "ret"
    /\ stack # <<>>
    /\ Top.f = "Concat2"
    /\ LET s == Top.s \o ctl.s
           context == ctl.context
       IN  IF Top.i < Len(Top.e.es)
           THEN /\ Resume(Eval(Top.env, Top.e.es[Top.i + 1], Top.vStr),
                          [Top EXCEPT !.f = "Concat1", !.i = @ + 1, !.s = s,
                                      !.context = context,
                                      !.parts = Append(@, vals[Top.vStr])])
                /\ vals' = vals
           ELSE IF Top.isPath /\ context # {}
           THEN Return(Throw("EvalError")) /\ vals' = vals
           ELSE /\ vals' = [vals EXCEPT ![Top.v] =
                                IF Top.isPath THEN mkPath(@, s) ELSE mkString(@, s, context)]
                /\ Return(Ret("eval", Top.v))
    /\ UNCHANGED <<pi, storeState, binds, envs, outcome, hist>>

\* One thunk per binding, in the environment env, stored from address n + 1 on.
Thunks(es, env) == [i \in 1..Len(es) |-> mkThunk(Uninit, env, es[i].e)]

EvalAttrs ==
    /\ ctl.op = "eval"
    /\ ctl.e.k = "Attrs"
    /\ LET es == ctl.e.es
           n == Len(vals)
           nb == Len(binds) + 1
       IN  /\ vals' = [vals EXCEPT ![ctl.v] = mkAttrs(@, nb)] \o Thunks(es, ctl.env)
           /\ binds' = Append(binds, [nm \in Names(es) |-> n + IndexOf(es, nm)])
    /\ ctl' = Ret("eval", ctl.v)
    /\ UNCHANGED <<pi, storeState, envs, stack, outcome, hist>>

\* The first recursive binding is evaluated when the set is built.
EvalRecEager ==
    /\ ctl.op = "eval"
    /\ ctl.e.k = "Rec"
    /\ LET rbnds == ctl.e.rbnds
           nrbnds == ctl.e.nrbnds
           n == Len(vals)
           nb == Len(binds) + 1
           env2 == EnvP(Len(envs) + 1)
       IN  /\ envs' = Append(envs, [up |-> ctl.env, b |-> nb])
           /\ vals' = [vals EXCEPT ![ctl.v] = mkAttrs(@, nb)]
                        \o Thunks(rbnds, env2) \o Thunks(nrbnds, ctl.env)
           /\ binds' = Append(binds,
                  [nm \in Names(rbnds) \cup Names(nrbnds) |->
                      IF nm \in Names(nrbnds) THEN n + Len(rbnds) + IndexOf(nrbnds, nm)
                      ELSE n + IndexOf(rbnds, nm)])
           /\ IF rbnds = <<>> THEN ctl' = Ret("eval", ctl.v) /\ stack' = stack
              ELSE Invoke(Eval(env2, rbnds[1].e, n + 1), [f |-> "If2", v |-> ctl.v])
    /\ UNCHANGED <<pi, storeState, outcome, hist>>

EvalRec ==
    /\ ctl.op = "eval"
    /\ ctl.e.k = "Rec"
    /\ LET rbnds == ctl.e.rbnds
           nrbnds == ctl.e.nrbnds
           n == Len(vals)
           nb == Len(binds) + 1
           env2 == EnvP(Len(envs) + 1)
       IN  /\ envs' = Append(envs, [up |-> ctl.env, b |-> nb])
           /\ vals' = [vals EXCEPT ![ctl.v] = mkAttrs(@, nb)]
                        \o Thunks(rbnds, env2) \o Thunks(nrbnds, ctl.env)
           /\ binds' = Append(binds,
                  [nm \in Names(rbnds) \cup Names(nrbnds) |->
                      IF nm \in Names(nrbnds) THEN n + Len(rbnds) + IndexOf(nrbnds, nm)
                      ELSE n + IndexOf(rbnds, nm)])
    /\ ctl' = Ret("eval", ctl.v)
    /\ UNCHANGED <<pi, storeState, stack, outcome, hist>>

EvalSelect ==
    /\ ctl.op = "eval"
    /\ ctl.e.k = "Select"
    /\ LET v2 == Len(vals) + 1
       IN  /\ vals' = Append(vals, Uninit)
           /\ Invoke(Eval(ctl.env, ctl.e.e1, v2),
                     [f |-> "Select1", e |-> ctl.e, v |-> ctl.v, v2 |-> v2])
    /\ UNCHANGED <<pi, storeState, binds, envs, outcome, hist>>

\* forceAttrs(v2)
RetSelect1 ==
    /\ ctl.op = "ret"
    /\ stack # <<>>
    /\ Top.f = "Select1"
    /\ Resume(Force(Top.v2), [Top EXCEPT !.f = "Select2"])
    /\ UNCHANGED <<pi, storeState, vals, binds, envs, outcome, hist>>

RetSelect2 ==
    /\ ctl.op = "ret"
    /\ stack # <<>>
    /\ Top.f = "Select2"
    /\ IF vals[Top.v2].type # "Attrs" THEN Return(Throw("TypeError"))
       ELSE LET bs == binds[vals[Top.v2].a[2]]
            IN  IF Top.e.name \notin DOMAIN bs THEN Return(Throw("AttrMissing"))
                ELSE Resume(Force(bs[Top.e.name]),
                            [f |-> "Select3", e |-> Top.e, v |-> Top.v, i |-> bs[Top.e.name]])
    /\ UNCHANGED <<pi, storeState, vals, binds, envs, outcome, hist>>

\* v = i->second
RetSelect3 ==
    /\ ctl.op = "ret"
    /\ stack # <<>>
    /\ Top.f = "Select3"
    /\ vals' = [vals EXCEPT ![Top.v] = vals[Top.i]]
    /\ Return(Ret("eval", Top.v))
    /\ UNCHANGED <<pi, storeState, binds, envs, outcome, hist>>

\* catch (Error & e) { addErrorPrefix(e, "while evaluating the attribute ..."); throw; }
CatchSelect ==
    /\ ctl.op = "throw"
    /\ stack # <<>>
    /\ Top.f = "Select3"
    /\ ctl' = [ctl EXCEPT !.prefix = <<Top.e.name>> \o @]
    /\ stack' = Pop
    /\ UNCHANGED <<pi, storeState, vals, binds, envs, outcome, hist>>

EvalFunction ==
    /\ ctl.op = "eval"
    /\ ctl.e.k = "Function"
    /\ vals' = [vals EXCEPT ![ctl.v] = mkLambda(@, ctl.env, ctl.e.pat, ctl.e.body)]
    /\ ctl' = Ret("eval", ctl.v)
    /\ UNCHANGED <<pi, storeState, binds, envs, stack, outcome, hist>>

EvalCall ==
    /\ ctl.op = "eval"
    /\ ctl.e.k = "Call"
    /\ LET vFun == Len(vals) + 1
       IN  /\ vals' = Append(vals, Uninit)
           /\ Invoke(Eval(ctl.env, ctl.e.fun, vFun),
                     [f |-> "Call1", e |-> ctl.e, env |-> ctl.env, v |-> ctl.v, vFun |-> vFun])
    /\ UNCHANGED <<pi, storeState, binds, envs, outcome, hist>>

\* mkThunk(vArg, env, arg); callFunction(vFun, vArg, v)
RetCall1 ==
    /\ ctl.op = "ret"
    /\ stack # <<>>
    /\ Top.f = "Call1"
    /\ LET vArg == Len(vals) + 1
       IN  /\ vals' = Append(vals, mkThunk(Uninit, Top.env, Top.e.arg))
           /\ Resume(CallFunction(Top.vFun, vArg, Top.v), [f |-> "Call2", v |-> Top.v])
    /\ UNCHANGED <<pi, storeState, binds, envs, outcome, hist>>

RetCall2 ==
    /\ ctl.op = "ret"
    /\ stack # <<>>
    /\ Top.f = "Call2"
    /\ Return(Ret("eval", Top.v))
    /\ UNCHANGED <<pi, storeState, vals, binds, envs, outcome, hist>>

EvalWith ==
    /\ ctl.op = "eval"
    /\ ctl.e.k = "With"
    /\ LET vAttrs == Len(vals) + 1
           env2 == EnvP(Len(envs) + 1)
       IN  /\ envs' = Append(envs, [up |-> ctl.env, b |-> Len(binds) + 1])
           /\ binds' = Append(binds, (sWith :> vAttrs))
           /\ vals' = Append(vals, Uninit)
           /\ Invoke(Eval(ctl.env, ctl.e.attrs, vAttrs),
                     [f |-> "With1", e |-> ctl.e, v |-> ctl.v, env2 |-> env2, vAttrs |-> vAttrs])
    /\ UNCHANGED <<pi, storeState, outcome, hist>>

\* forceAttrs(vAttrs)
RetWith1 ==
    /\ ctl.op = "ret"
    /\ stack # <<>>
    /\ Top.f = "With1"
    /\ Resume(Force(Top.vAttrs), [Top EXCEPT !.f = "With2"])
    /\ UNCHANGED <<pi, storeState, vals, binds, envs, outcome, hist>>

RetWith2 ==
    /\ ctl.op = "ret"
    /\ stack # <<>>
    /\ Top.f = "With2"
    /\ IF vals[Top.vAttrs].type # "Attrs" THEN Return(Throw("TypeError"))
       ELSE Resume(Eval(Top.env2, Top.e.body, Top.v), [f |-> "With3", v |-> Top.v])
    /\ UNCHANGED <<pi, storeState, vals, binds, envs, outcome, hist>>

RetWith3 ==
    /\ ctl.op = "ret"
    /\ stack # <<>>
    /\ Top.f = "With3"
    /\ Return(Ret("eval", Top.v))
    /\ UNCHANGED <<pi, storeState, vals, binds, envs, outcome, hist>>

EvalList ==
    /\ ctl.op = "eval"
    /\ ctl.e.k = "List"
    /\ LET es == ctl.e.es
       IN  vals' = [vals EXCEPT ![ctl.v] = mkList(@, Len(es), Len(vals) + 1)]
                     \o [n \in 1..Len(es) |-> mkThunk(Uninit, ctl.env, es[n])]
    /\ ctl' = Ret("eval", ctl.v)
    /\ UNCHANGED <<pi, storeState, binds, envs, stack, outcome, hist>>

EvalOpEq ==
    /\ ctl.op = "eval"
    /\ ctl.e.k = "OpEq"
    /\ LET v1 == Len(vals) + 1
       IN  /\ vals' = Append(vals, Uninit)
           /\ Invoke(Eval(ctl.env, ctl.e.e1, v1),
                     [f |-> "Eq1", e |-> ctl.e, env |-> ctl.env, v |-> ctl.v, v1 |-> v1,
                      v2 |-> 0, neg |-> FALSE])
    /\ UNCHANGED <<pi, storeState, binds, envs, outcome, hist>>

EvalOpNEq ==
    /\ ctl.op = "eval"
    /\ ctl.e.k = "OpNEq"
    /\ LET v1 == Len(vals) + 1
       IN  /\ vals' = Append(vals, Uninit)
           /\ Invoke(Eval(ctl.env, ctl.e.e1, v1),
                     [f |-> "Eq1", e |-> ctl.e, env |-> ctl.env, v |-> ctl.v, v1 |-> v1,
                      v2 |-> 0, neg |-> TRUE])
    /\ UNCHANGED <<pi, storeState, binds, envs, outcome, hist>>

RetEq1 ==
    /\ ctl.op = "ret"
    /\ stack # <<>>
    /\ Top.f = "Eq1"
    /\ LET v2 == Len(vals) + 1
       IN  /\ vals' = Append(vals, Uninit)
           /\ Resume(Eval(Top.env, Top.e.e2, v2), [Top EXCEPT !.f = "Eq2", !.v2 = v2])
    /\ UNCHANGED <<pi, storeState, binds, envs, outcome, hist>>

RetEq2 ==
    /\ ctl.op = "ret"
    /\ stack # <<>>
    /\ Top.f = "Eq2"
    /\ Resume(EqValues(Top.v1, Top.v2), [Top EXCEPT !.f = "Eq3"])
    /\ UNCHANGED <<pi, storeState, vals, binds, envs, outcome, hist>>

\* mkBool(v, eqValues(v1, v2)), or its negation
RetEq3 ==
    /\ ctl.op = "ret"
    /\ stack # <<>>
    /\ Top.f = "Eq3"
    /\ vals' = [vals EXCEPT ![Top.v] = mkBool(@, ctl.val # Top.neg)]
    /\ Return(Ret("eval", Top.v))
    /\ UNCHANGED <<pi, storeState, binds, envs, outcome, hist>>

EvalOpUpdate ==
    /\ ctl.op = "eval"
    /\ ctl.e.k = "OpUpdate"
    /\ LET v2 == Len(vals) + 1
       IN  /\ vals' = Append(vals, Uninit)
           /\ Invoke(Eval(ctl.env, ctl.e.e1, v2),
                     [f |-> "Update1", e |-> ctl.e, env |-> ctl.env, v |-> ctl.v, v2 |-> v2])
    /\ UNCHANGED <<pi, storeState, binds, envs, outcome, hist>>

\* cloneAttrs(v2, v); eval(env, e2, v2)
RetUpdate1 ==
    /\ ctl.op = "ret"
    /\ stack # <<>>
    /\ Top.f = "Update1"
    /\ IF ~IsBndP(vals[Top.v2].a)
       THEN Return(Undefined("attrs")) /\ UNCHANGED <<vals, binds>>
       ELSE LET src == vals[Top.v2].a[2]
                ks == SortKeys(DOMAIN binds[src])
                n == Len(vals)
            IN  /\ vals' = [vals EXCEPT ![Top.v] = mkAttrs(@, Len(binds) + 1)]
                             \o [i \in 1..Len(ks) |-> mkCopy(Uninit, binds[src][ks[i]])]
                /\ binds' = Append(binds, [nm \in DOMAIN binds[src] |->
                                              n + (CHOOSE i \in 1..Len(ks) : ks[i] = nm)])
                /\ Resume(Eval(Top.env, Top.e.e2, Top.v2), [Top EXCEPT !.f = "Update2"])
    /\ UNCHANGED <<pi, storeState, envs, outcome, hist>>

\* foreach (i, *v2.attrs) (*v.attrs)[i->first] = i->second;
RetUpdate2 ==
    /\ ctl.op = "ret"
    /\ stack # <<>>
    /\ Top.f = "Update2"
    /\ IF ~IsBndP(vals[Top.v2].a) \/ ~IsBndP(vals[Top.v].a)
       THEN Return(Undefined("attrs")) /\ UNCHANGED <<vals, binds>>
       ELSE LET src == binds[vals[Top.v2].a[2]]
                dst == vals[Top.v].a[2]
                new == SortKeys(DOMAIN src \ DOMAIN binds[dst])
                n == Len(vals)
                at == [nm \in DOMAIN src |->
                          IF nm \in DOMAIN binds[dst] THEN binds[dst][nm]
                          ELSE n + (CHOOSE i \in 1..Len(new) : new[i] = nm)]
            IN  /\ vals' = [c \in 1..(n + Len(new)) |->
                               IF \E nm \in DOMAIN src : at[nm] = c
                               THEN vals[src[CHOOSE nm \in DOMAIN src : at[nm] = c]]
                               ELSE vals[c]]
                /\ binds' = [binds EXCEPT ![dst] =
                                [nm \in DOMAIN @ \cup DOMAIN src |->
                                    IF nm \in DOMAIN src THEN at[nm] ELSE @[nm]]]
                /\ Return(Ret("eval", Top.v))
    /\ UNCHANGED <<pi, storeState, envs, outcome, hist>>

\* evalBool(env, e1)
EvalIf ==
    /\ ctl.op = "eval"
    /\ ctl.e.k = "If"
    /\ LET v1 == Len(vals) + 1
       IN  /\ vals' = Append(vals, Uninit)
           /\ Invoke(Eval(ctl.env, ctl.e.e1, v1),
                     [f |-> "If1", e |-> ctl.e, env |-> ctl.env, v |-> ctl.v, v1 |-> v1])
    /\ UNCHANGED <<pi, storeState, binds, envs, outcome, hist>>

RetIf1 ==
    /\ ctl.op = "ret"
    /\ stack # <<>>
    /\ Top.f = "If1"
    /\ IF vals[Top.v1].type # "Bool" THEN Return(Throw("TypeError"))
       ELSE Resume(Eval(Top.env, IF vals[Top.v1].a[2] THEN Top.e.e2 ELSE Top.e.e3, Top.v),
                   [f |-> "If2", v |-> Top.v])
    /\ UNCHANGED <<pi, storeState, vals, binds, envs, outcome, hist>>

RetIf2 ==
    /\ ctl.op = "ret"
    /\ stack # <<>>
    /\ Top.f = "If2"
    /\ Return(Ret("eval", Top.v))
    /\ UNCHANGED <<pi, storeState, vals, binds, envs, outcome, hist>>

(***************************************************************************)
(* eqValues                                                                *)
(***************************************************************************)
EqValuesForce1 ==
    /\ ctl.op = "eqValues"
    /\ Invoke(Force(ctl.v1), [f |-> "EqValues1", v1 |-> ctl.v1, v2 |-> ctl.v2, n |-> 0])
    /\ UNCHANGED <<pi, storeState, vals, binds, envs, outcome, hist>>

EqValuesForce2 ==
    /\ ctl.op = "ret"
    /\ stack # <<>>
    /\ Top.f = "EqValues1"
    /\ Resume(Force(Top.v2), [Top EXCEPT !.f = "EqValues2"])
    /\ UNCHANGED <<pi, storeState, vals, binds, envs, outcome, hist>>

\* case tLambda, tPrimOp, tPrimOpApp: the same function is equal to itself.
EqValuesSwitchSame ==
    /\ ctl.op = "ret"
    /\ stack # <<>>
    /\ Top.f = "EqValues2"
    /\ LET v1 == vals[Top.v1]
           v2 == vals[Top.v2]
       IN  IF v1.type # v2.type THEN Return(RetBool("eqValues", FALSE))
           ELSE IF v1.type \in {"Int", "Bool", "Str", "Path"}
           THEN Return(RetBool("eqValues", v1.a[2] = v2.a[2]))
           ELSE IF v1.type = "Null" THEN Return(RetBool("eqValues", TRUE))
           ELSE IF v1.type = "List"
           THEN IF v1.a[2] # v2.a[2] THEN Return(RetBool("eqValues", FALSE))
                ELSE IF v1.a[2] = 0 THEN Return(RetBool("eqValues", TRUE))
                ELSE Resume(EqValues(v1.b[2], v2.b[2]), [Top EXCEPT !.f = "EqValuesList"])
           ELSE IF v1.type = "Attrs"
           THEN LET i == Cells(v1.a[2])
                    j == Cells(v2.a[2])
                IN  IF Len(i) # Len(j) THEN Return(RetBool("eqValues", FALSE))
                    ELSE IF Len(i) = 0 THEN Return(RetBool("eqValues", TRUE))
                    ELSE Resume(EqValues(i[1], j[1]),
                                [Top EXCEPT !.f = "EqValuesAttrs", !.n = 1])
           ELSE IF v1.type \in {"Lambda", "PrimOp", "PrimOpApp"}
           THEN Return(RetBool("eqValues", v1 = v2))
           ELSE Return(Throw("Error"))
    /\ UNCHANGED <<pi, storeState, vals, binds, envs, outcome, hist>>

\* if (v1.type != v2.type) return false; switch (v1.type) ...
EqValuesSwitch ==
    /\ ctl.op = "ret"
    /\ stack # <<>>
    /\ Top.f = "EqValues2"
    /\ LET v1 == vals[Top.v1]
           v2 == vals[Top.v2]
       IN  IF v1.type # v2.type THEN Return(RetBool("eqValues", FALSE))
           ELSE IF v1.type \in {"Int", "Bool", "Str", "Path"}
           THEN Return(RetBool("eqValues", v1.a[2] = v2.a[2]))
           ELSE IF v1.type = "Null" THEN Return(RetBool("eqValues", TRUE))
           ELSE IF v1.type = "List"
           THEN IF v1.a[2] # v2.a[2] THEN Return(RetBool("eqValues", FALSE))
                ELSE IF v1.a[2] = 0 THEN Return(RetBool("eqValues", TRUE))
                ELSE Resume(EqValues(v1.b[2], v2.b[2]), [Top EXCEPT !.f = "EqValuesList"])
           ELSE IF v1.type = "Attrs"
           THEN LET i == Cells(v1.a[2])
                    j == Cells(v2.a[2])
                IN  IF Len(i) # Len(j) THEN Return(RetBool("eqValues", FALSE))
                    ELSE IF Len(i) = 0 THEN Return(RetBool("eqValues", TRUE))
                    ELSE Resume(EqValues(i[1], j[1]),
                                [Top EXCEPT !.f = "EqValuesAttrs", !.n = 1])
           ELSE IF v1.type \in {"Lambda", "PrimOp", "PrimOpApp"}
           THEN Return(RetBool("eqValues", FALSE))
           ELSE Return(Throw("Error"))
    /\ UNCHANGED <<pi, storeState, vals, binds, envs, outcome, hist>>

\* for (n = 0; n < v1.list.length; ++n)
\*     if (!eqValues(v1.list.elems[n], v2.list.elems[n])) return false;
EqValuesList ==
    /\ ctl.op = "ret"
    /\ stack # <<>>
    /\ Top.f = "EqValuesList"
    /\ LET v1 == vals[Top.v1]
           v2 == vals[Top.v2]
           n == Top.n + 1
       IN  IF ~ctl.val THEN Return(RetBool("eqValues", FALSE))
           ELSE IF n < v1.a[2]
           THEN Resume(EqValues(v1.b[2] + n, v2.b[2] + n), [Top EXCEPT !.n = n])
           ELSE Return(RetBool("eqValues", TRUE))
    /\ UNCHANGED <<pi, storeState, vals, binds, envs, outcome, hist>>

\* for (i = v1.attrs->begin(), j = v2.attrs->begin(); i != v1.attrs->end(); ++i, ++j)
\*     if (!eqValues(i->second, j->second)) return false;
EqValuesAttrs ==
    /\ ctl.op = "ret"
    /\ stack # <<>>
    /\ Top.f = "EqValuesAttrs"
    /\ LET i == Cells(vals[Top.v1].a[2])
           j == Cells(vals[Top.v2].a[2])
           n == Top.n + 1
       IN  IF ~ctl.val THEN Return(RetBool("eqValues", FALSE))
           ELSE IF n <= Len(i)
           THEN IF n <= Len(j)
                THEN Resume(EqValues(i[n], j[n]), [Top EXCEPT !.n = n])
                ELSE Return(Undefined("iterator"))
           ELSE Return(RetBool("eqValues", TRUE))
    /\ UNCHANGED <<pi, storeState, vals, binds, envs, outcome, hist>>

(***************************************************************************)
(* strictForceValue                                                        *)
(***************************************************************************)
StrictForceValue ==
    /\ ctl.op = "strictForce"
    /\ Invoke(Force(ctl.v), [f |-> "Strict1", v |-> ctl.v, n |-> 0])
    /\ UNCHANGED <<pi, storeState, vals, binds, envs, outcome, hist>>

RetStrict1 ==
    /\ ctl.op = "ret"
    /\ stack # <<>>
    /\ Top.f = "Strict1"
    /\ LET v == vals[Top.v]
       IN  IF v.type = "Attrs" /\ DOMAIN binds[v.a[2]] # {}
           THEN Resume(StrictForce(Cells(v.a[2])[1]), [Top EXCEPT !.f = "StrictAttrs", !.n = 1])
           ELSE IF v.type = "List" /\ v.a[2] > 0
           THEN Resume(StrictForce(v.b[2]), [Top EXCEPT !.f = "StrictList", !.n = 0])
           ELSE Return(Ret("strictForce", Top.v))
    /\ UNCHANGED <<pi, storeState, vals, binds, envs, outcome, hist>>

RetStrictAttrs ==
    /\ ctl.op = "ret"
    /\ stack # <<>>
    /\ Top.f = "StrictAttrs"
    /\ LET i == Cells(vals[Top.v].a[2])
           n == Top.n + 1
       IN  IF n <= Len(i) THEN Resume(StrictForce(i[n]), [Top EXCEPT !.n = n])
           ELSE Return(Ret("strictForce", Top.v))
    /\ UNCHANGED <<pi, storeState, vals, binds, envs, outcome, hist>>

RetStrictList ==
    /\ ctl.op = "ret"
    /\ stack # <<>>
    /\ Top.f = "StrictList"
    /\ LET v == vals[Top.v]
           n == Top.n + 1
       IN  IF n < v.a[2] THEN Resume(StrictForce(v.b[2] + n), [Top EXCEPT !.n = n])
           ELSE Return(Ret("strictForce", Top.v))
    /\ UNCHANGED <<pi, storeState, vals, binds, envs, outcome, hist>>

(***************************************************************************)
(* coerceToString.  The caller's context set is handed in and handed back  *)
(* with the string.                                                        *)
(***************************************************************************)
\* canonPath: the pieces "/." are dropped, and "/.." drops the piece before it.
RECURSIVE canonPathFrom(_, _)
canonPathFrom(done, rest) ==
    IF rest = <<>> THEN done
    ELSE IF rest[1] = "/." THEN canonPathFrom(done, Tail(rest))
    ELSE IF rest[1] = "/.."
    THEN canonPathFrom(SubSeq(done, 1, Len(done) - 1), Tail(rest))
    ELSE canonPathFrom(Append(done, rest[1]), Tail(rest))

canonPath(path) == canonPathFrom(<<>>, path)

\* nix::isDerivation(path): the file name ends in drvExtension.
isDerivation(path) == path # <<>> /\ path[Len(path)] = drvExtension

\* The store path of a source path: store->addToStore(path) and
\* computeStorePathForPath(path).first give the same one.
storePathOf(path) == <<"/nix/store">> \o path

int2String(i) == <<ToString(i)>>

CoerceForce ==
    /\ ctl.op = "coerceToString"
    /\ Invoke(Force(ctl.v), [f |-> "Coerce1", c |-> ctl])
    /\ UNCHANGED <<pi, storeState, vals, binds, envs, outcome, hist>>

\* if (n < v.list.length - 1 && (v.list.elems[n].type != tList
\*     || v.list.elems[n].list.length != 0)) result += " ";
separatorNext(v, n) ==
    IF n < v.a[2] - 1
       /\ (vals[v.b[2] + n + 1].type # "List" \/ vals[v.b[2] + n + 1].a[2] # 0)
    THEN <<" ">> ELSE <<>>

separator(v, n) ==
    IF n < v.a[2] - 1 /\ (vals[v.b[2] + n].type # "List" \/ vals[v.b[2] + n].a[2] # 0)
    THEN <<" ">> ELSE <<>>

\* srcToStore is not looked at.
memoizedNever(path) == FALSE

\* srcToStore[path] != ""
memoized(path) == path \in DOMAIN srcToStore /\ srcToStore[path] # <<>>

\* The value is forced: the cases of coerceToString.
CoerceSwitch ==
    /\ ctl.op = "ret"
    /\ stack # <<>>
    /\ Top.f = "Coerce1"
    /\ LET c == Top.c
           v == vals[c.v]
           path == canonPath(v.a[2])
           dstPath == IF memoized(path) THEN srcToStore[path] ELSE storePathOf(path)
       IN  /\ IF v.type = "Str" THEN Return(RetStr(v.a[2], c.context \cup v.b[2]))
              ELSE IF v.type = "Path"
              THEN IF ~c.copyToStore THEN Return(RetStr(path, c.context))
                   ELSE IF isDerivation(path) THEN Return(Throw("EvalError"))
                   ELSE Return(RetStr(dstPath, c.context \cup {dstPath}))
              ELSE IF v.type = "Attrs"
              THEN IF "outPath" \in DOMAIN binds[v.a[2]]
                   THEN Resume(CoerceToString(binds[v.a[2]]["outPath"], c.context,
                                              c.coerceMore, c.copyToStore),
                               [f |-> "Coerce2"])
                   ELSE Return(Throw("TypeError"))
              ELSE IF c.coerceMore /\ v.type = "Bool"
              THEN Return(RetStr(IF v.a[2] THEN <<"1">> ELSE <<>>, c.context))
              ELSE IF c.coerceMore /\ v.type = "Int"
              THEN Return(RetStr(int2String(v.a[2]), c.context))
              ELSE IF c.coerceMore /\ v.type = "Null" THEN Return(RetStr(<<>>, c.context))
              ELSE IF c.coerceMore /\ v.type = "List"
              THEN IF v.a[2] = 0 THEN Return(RetStr(<<>>, c.context))
                   ELSE Resume(CoerceToString(v.b[2], c.context, c.coerceMore, c.copyToStore),
                               [f |-> "CoerceList", c |-> c, n |-> 0, result |-> <<>>])
              ELSE Return(Throw("TypeError"))
           /\ IF v.type = "Path" /\ c.copyToStore /\ ~isDerivation(path) /\ ~memoized(path)
              THEN /\ srcToStore' = (path :> dstPath) @@ srcToStore
                   /\ storeLog' = Append(storeLog,
                          [op |-> IF readOnlyMode THEN "computeStorePathForPath"
                                  ELSE "addToStore",
                           path |-> path])
              ELSE UNCHANGED <<srcToStore, storeLog>>
    /\ UNCHANGED <<pi, readOnlyMode, vals, binds, envs, outcome, hist>>

\* return coerceToString(i->second, context, coerceMore, copyToStore);
RetCoerce2 ==
    /\ ctl.op = "ret"
    /\ stack # <<>>
    /\ Top.f = "Coerce2"
    /\ Return(ctl)
    /\ UNCHANGED <<pi, storeState, vals, binds, envs, outcome, hist>>

\* for (n = 0; n < v.list.length; ++n) { result += coerceToString(...); ... }
CoerceList ==
    /\ ctl.op = "ret"
    /\ stack # <<>>
    /\ Top.f = "CoerceList"
    /\ LET c == Top.c
           v == vals[c.v]
           result == Top.result \o ctl.s \o separator(v, Top.n)
           n == Top.n + 1
       IN  IF n < v.a[2]
           THEN Resume(CoerceToString(v.b[2] + n, ctl.context, c.coerceMore, c.copyToStore),
                       [Top EXCEPT !.n = n, !.result = result])
           ELSE Return(RetStr(result, ctl.context))
    /\ UNCHANGED <<pi, storeState, vals, binds, envs, outcome, hist>>

(***************************************************************************)
(* callFunction                                                            *)
(***************************************************************************)
argsLeft(fun) ==
    IF vals[fun].type = "PrimOp" THEN vals[fun].b[2] ELSE vals[fun].c[2]

\* while (primOp->type == tPrimOpApp) primOp = primOp->primOpApp.left;
RECURSIVE findPrimOp(_)
findPrimOp(primOp) ==
    IF vals[primOp].type = "PrimOpApp" THEN findPrimOp(vals[primOp].a[2]) ELSE primOp

\* for (arg = &fun; arg->type == tPrimOpApp; arg = arg->primOpApp.left)
\*     vArgs[n--] = arg->primOpApp.right;
RECURSIVE gatherArgs(_, _, _)
gatherArgs(vArgs, n, arg) ==
    IF vals[arg].type = "PrimOpApp"
    THEN gatherArgs([vArgs EXCEPT ![n] = vals[arg].b[2]], n - 1, vals[arg].a[2])
    ELSE vArgs

\* n = 0; vArgs[n++] = &arg; ... vArgs[n++] = arg->primOpApp.right
RECURSIVE gatherArgsUp(_, _, _)
gatherArgsUp(vArgs, n, arg) ==
    IF vals[arg].type = "PrimOpApp"
    THEN gatherArgsUp([vArgs EXCEPT ![n] = vals[arg].b[2]], n + 1, vals[arg].a[2])
    ELSE vArgs

argVectorUp(fun, arg) ==
    LET arity == vals[findPrimOp(fun)].b[2]
    IN  gatherArgsUp([i \in 0..(arity - 1) |-> IF i = 0 THEN arg ELSE NotFound], 1, fun)

\* Value * vArgs[arity]; n = arity - 1; vArgs[n--] = &arg; ...
argVector(fun, arg) ==
    LET arity == vals[findPrimOp(fun)].b[2]
    IN  gatherArgs([i \in 0..(arity - 1) |-> IF i = arity - 1 THEN arg ELSE NotFound],
                   arity - 2, fun)

\* The primop is called with all its arguments.
CallPrimOp ==
    /\ ctl.op = "call"
    /\ vals[ctl.fun].type \in {"PrimOp", "PrimOpApp"}
    /\ argsLeft(ctl.fun) = 1
    /\ LET primOp == findPrimOp(ctl.fun)
           vArgs == argVector(ctl.fun, ctl.arg)
           args == [i \in 1..vals[primOp].b[2] |-> vArgs[i - 1]]
       IN  /\ Invoke([op |-> "primop", fun |-> vals[primOp].a[2], args |-> args,
                      v |-> ctl.v, n |-> 1, acc |-> 0],
                     [f |-> "CallFunction", v |-> ctl.v])
           /\ primLog' = Append(primLog,
                  [fun |-> vals[primOp].a[2], args |-> [i \in 1..Len(args) |-> vals[args[i]]]])
    /\ UNCHANGED <<pi, storeState, vals, binds, envs, outcome, evaluated, twice>>

\* An argument is missing still: a PrimOpApp node remembers this one.
CallPrimOpApp ==
    /\ ctl.op = "call"
    /\ vals[ctl.fun].type \in {"PrimOp", "PrimOpApp"}
    /\ argsLeft(ctl.fun) # 1
    /\ LET v2 == Len(vals) + 1
       IN  vals' = [vals EXCEPT ![ctl.v] =
                       [@ EXCEPT !.type = "PrimOpApp", !.a = ValP(v2), !.b = ValP(v2 + 1),
                                 !.c = <<"int", argsLeft(ctl.fun) - 1>>,
                                 !.h = Append(vals[ctl.fun].h, v2 + 1)]]
                     \o <<vals[ctl.fun], vals[ctl.arg]>>
    /\ ctl' = Ret("call", ctl.v)
    /\ UNCHANGED <<pi, storeState, binds, envs, stack, outcome, hist>>

CallNotFunction ==
    /\ ctl.op = "call"
    /\ vals[ctl.fun].type \notin {"PrimOp", "PrimOpApp", "Lambda"}
    /\ ctl' = Throw("TypeError")
    /\ UNCHANGED <<pi, storeState, vals, binds, envs, stack, outcome, hist>>

CallVarPat ==
    /\ ctl.op = "call"
    /\ vals[ctl.fun].type = "Lambda"
    /\ vals[ctl.fun].b[2].p = "VarPat"
    /\ LET vArg == Len(vals) + 1
           env2 == EnvP(Len(envs) + 1)
       IN  /\ envs' = Append(envs, [up |-> vals[ctl.fun].a, b |-> Len(binds) + 1])
           /\ binds' = Append(binds, (vals[ctl.fun].b[2].name :> vArg))
           /\ vals' = Append(vals, vals[ctl.arg])
           /\ Invoke(Eval(env2, vals[ctl.fun].c[2], ctl.v), [f |-> "CallFunction", v |-> ctl.v])
    /\ UNCHANGED <<pi, storeState, outcome, hist>>

\* forceAttrs(arg)
CallAttrsPat ==
    /\ ctl.op = "call"
    /\ vals[ctl.fun].type = "Lambda"
    /\ vals[ctl.fun].b[2].p = "AttrsPat"
    /\ envs' = Append(envs, [up |-> vals[ctl.fun].a, b |-> Len(binds) + 1])
    /\ binds' = Append(binds, <<>>)
    /\ Invoke(Force(ctl.arg),
              [f |-> "CallAttrs", fun |-> ctl.fun, arg |-> ctl.arg, v |-> ctl.v,
               env2 |-> Len(envs) + 1])
    /\ UNCHANGED <<pi, storeState, vals, outcome, hist>>

\* The loop over the formals: st.cells are the cells made so far in env2,
\* st.names the symbols they are bound to.
RECURSIVE bindFormals(_, _, _, _, _)
bindFormals(formals, i, actual, env2, st) ==
    IF i > Len(formals) \/ st.err # "" THEN st
    ELSE LET name == formals[i].name
             def == formals[i].def
         IN  bindFormals(formals, i + 1, actual, env2,
                IF name \notin DOMAIN actual
                THEN IF def.d = "NoDefaultValue"
                     THEN [st EXCEPT !.err = "MissingArgument"]
                     ELSE [st EXCEPT !.cells = Append(@, mkThunk(Uninit, env2, def.e)),
                                     !.names = Append(@, name)]
                ELSE [st EXCEPT !.cells = Append(@, mkCopy(Uninit, actual[name])),
                                !.names = Append(@, name),
                                !.attrsUsed = @ + 1])

\* The cell a symbol is bound to is the last one made for it.
LastIndex(names, nm) ==
    CHOOSE i \in 1..Len(names) :
        names[i] = nm /\ \A j \in (i + 1)..Len(names) : names[j] # nm

\* attrsUsed is compared with the number of formals.
unexpectedArgumentFormals(pat, attrsUsed, actual) ==
    ~pat.ellipsis /\ attrsUsed # Len(pat.formals)

\* if (!ellipsis && attrsUsed != arg.attrs->size())
unexpectedArgument(pat, attrsUsed, actual) ==
    ~pat.ellipsis /\ attrsUsed # Cardinality(DOMAIN actual)

RetCallAttrs ==
    /\ ctl.op = "ret"
    /\ stack # <<>>
    /\ Top.f = "CallAttrs"
    /\ LET pat == vals[Top.fun].b[2]
           env2 == EnvP(Top.env2)
           n == Len(vals)
       IN  IF vals[Top.arg].type # "Attrs"
           THEN Return(Throw("TypeError")) /\ UNCHANGED <<vals, binds>>
           ELSE LET actual == binds[vals[Top.arg].a[2]]
                    st0 == IF pat.name # sNoAlias
                           THEN [cells |-> <<vals[Top.arg]>>, names |-> <<pat.name>>,
                                 attrsUsed |-> 0, err |-> ""]
                           ELSE [cells |-> <<>>, names |-> <<>>, attrsUsed |-> 0, err |-> ""]
                    st == bindFormals(pat.formals, 1, actual, env2, st0)
                IN  IF st.err # ""
                    THEN Return(Throw(st.err)) /\ UNCHANGED <<vals, binds>>
                    ELSE IF unexpectedArgument(pat, st.attrsUsed, actual)
                    THEN Return(Throw("UnexpectedArgument")) /\ UNCHANGED <<vals, binds>>
                    ELSE /\ vals' = vals \o st.cells
                         /\ binds' = [binds EXCEPT ![envs[Top.env2].b] =
                                [nm \in Range(st.names) |-> n + LastIndex(st.names, nm)]]
                         /\ Resume(Eval(env2, vals[Top.fun].c[2], Top.v),
                                   [f |-> "CallFunction", v |-> Top.v])
    /\ UNCHANGED <<pi, storeState, envs, outcome, hist>>

RetCallFunction ==
    /\ ctl.op = "ret"
    /\ stack # <<>>
    /\ Top.f = "CallFunction"
    /\ Return(Ret("call", Top.v))
    /\ UNCHANGED <<pi, storeState, vals, binds, envs, outcome, hist>>

(***************************************************************************)
(* The primops of the base environment: each forces its arguments to       *)
(* integers, first to last, and returns their sum.                         *)
(***************************************************************************)
PrimOpArg ==
    /\ ctl.op = "primop"
    /\ ctl.fun = "sum"
    /\ ctl.n <= Len(ctl.args)
    /\ Invoke(Force(ctl.args[ctl.n]), [f |-> "PrimOpArg", c |-> ctl])
    /\ UNCHANGED <<pi, storeState, vals, binds, envs, outcome, hist>>

RetPrimOpArg ==
    /\ ctl.op = "ret"
    /\ stack # <<>>
    /\ Top.f = "PrimOpArg"
    /\ LET arg == vals[Top.c.args[Top.c.n]]
       IN  IF arg.type # "Int" THEN Return(Throw("TypeError"))
           ELSE Return([Top.c EXCEPT !.n = @ + 1, !.acc = @ + arg.a[2]])
    /\ UNCHANGED <<pi, storeState, vals, binds, envs, outcome, hist>>

\* toString: coerceToString(*args[0], context, true, false), then
\* mkString(v, s, context).
PrimToString ==
    /\ ctl.op = "primop"
    /\ ctl.fun = "toString"
    /\ Invoke(CoerceToString(ctl.args[1], {}, TRUE, FALSE), [f |-> "PrimToString", v |-> ctl.v])
    /\ UNCHANGED <<pi, storeState, vals, binds, envs, outcome, hist>>

RetPrimToString ==
    /\ ctl.op = "ret"
    /\ stack # <<>>
    /\ Top.f = "PrimToString"
    /\ vals' = [vals EXCEPT ![Top.v] = mkString(@, ctl.s, ctl.context)]
    /\ Return(Ret("primop", Top.v))
    /\ UNCHANGED <<pi, storeState, binds, envs, outcome, hist>>

PrimOpDone ==
    /\ ctl.op = "primop"
    /\ ctl.fun = "sum"
    /\ ctl.n > Len(ctl.args)
    /\ vals' = [vals EXCEPT ![ctl.v] = mkInt(@, ctl.acc)]
    /\ ctl' = Ret("primop", ctl.v)
    /\ UNCHANGED <<pi, storeState, binds, envs, stack, outcome, hist>>

(***************************************************************************)
(* Errors and undefined behaviour                                          *)
(***************************************************************************)
\* An exception leaves a function that does not catch it.
Unwind ==
    /\ ctl.op = "throw"
    /\ stack # <<>>
    /\ Top.f \notin {"Force", "Select3"}
    /\ stack' = Pop
    /\ UNCHANGED <<pi, storeState, vals, binds, envs, ctl, outcome, hist>>

\* A wild pointer was dereferenced: the process dies, or garbage is read and
\* the evaluation goes on to fail.
UndefinedBehaviour ==
    /\ ctl.op = "ub"
    /\ ctl' \in {Crashed("segmentation fault"), Throw("Error")}
    /\ UNCHANGED <<pi, storeState, vals, binds, envs, stack, outcome, hist>>

Next ==
    \/ Demand \/ Finish \/ Fail
    \/ ForceThunk \/ RetForce \/ CatchForce \/ ForceCopy \/ RetForceCopy
    \/ ForceBlackhole \/ ForceOther
    \/ EvalVar \/ RetVar \/ EvalInt \/ EvalAttrs \/ EvalRec
    \/ EvalSelect \/ RetSelect1 \/ RetSelect2 \/ RetSelect3 \/ CatchSelect
    \/ EvalFunction
    \/ EvalCall \/ RetCall1 \/ RetCall2
    \/ EvalWith \/ RetWith1 \/ RetWith2 \/ RetWith3 \/ EvalList
    \/ CallPrimOp \/ CallPrimOpApp \/ CallNotFunction \/ CallVarPat
    \/ CallAttrsPat \/ RetCallAttrs \/ RetCallFunction
    \/ PrimOpArg \/ RetPrimOpArg \/ PrimOpDone \/ PrimToString \/ RetPrimToString
    \/ EvalStr \/ EvalPath \/ EvalConcatStrings \/ RetConcat1 \/ RetConcat2
    \/ CoerceForce \/ CoerceSwitch \/ RetCoerce2 \/ CoerceList
    \/ EvalOpEq \/ EvalOpNEq \/ RetEq1 \/ RetEq2 \/ RetEq3
    \/ EvalOpUpdate \/ RetUpdate1 \/ RetUpdate2
    \/ EvalIf \/ RetIf1 \/ RetIf2
    \/ EqValuesForce1 \/ EqValuesForce2 \/ EqValuesSwitch \/ EqValuesList \/ EqValuesAttrs
    \/ DemandStrict \/ StrictForceValue \/ RetStrict1 \/ RetStrictAttrs \/ RetStrictList
    \/ Unwind \/ UndefinedBehaviour

Spec == Init /\ [][Next]_vars

(***************************************************************************)
(* Name resolution on its own: lookupVar, through eval of a variable, on   *)
(* every chain of at most MaxChain environments, each either a frame with  *)
(* regular bindings or a `with' frame, over the symbols x and y.           *)
(***************************************************************************)
LookupSyms == {"x", "y"}
FrameKinds == [kind : {"regular", "with"}, names : SUBSET LookupSyms]

\* Frame i (1 is the outermost) owns the cells 3i-2 (its `with' attribute
\* set), 3i-1 (x) and 3i (y), and the Bindings 2i-1 (the frame's own) and
\* 2i (those of its `with' attribute set).
ChainCell(i, nm) == 3 * (i - 1) + (IF nm = "x" THEN 2 ELSE 3)
ChainVals(desc) ==
    [c \in 1..(3 * Len(desc) + 1) |->
        IF c = 3 * Len(desc) + 1 THEN Uninit
        ELSE LET i == ((c - 1) \div 3) + 1
             IN  IF c = 3 * (i - 1) + 1
                 THEN IF desc[i].kind = "with" THEN mkAttrs(Uninit, 2 * i) ELSE Uninit
                 ELSE mkInt(Uninit, c)]
ChainBinds(desc) ==
    [b \in 1..(2 * Len(desc)) |->
        LET i == ((b - 1) \div 2) + 1
            named == [nm \in desc[i].names |-> ChainCell(i, nm)]
        IN  IF desc[i].kind = "with"
            THEN IF b = 2 * i THEN named ELSE (sWith :> (3 * (i - 1) + 1))
            ELSE IF b = 2 * i THEN <<>> ELSE named]
ChainEnvs(desc) ==
    [i \in 1..Len(desc) |-> [up |-> IF i = 1 THEN Nil ELSE EnvP(i - 1), b |-> 2 * i - 1]]

InitLookup ==
    \E n \in 1..MaxChain : \E desc \in [1..n -> FrameKinds] : \E name \in LookupSyms :
        /\ pi = 0
        /\ vals = ChainVals(desc)
        /\ binds = ChainBinds(desc)
        /\ envs = ChainEnvs(desc)
        /\ stack = <<>>
        /\ ctl = Eval(EnvP(n), Var(name), 3 * n + 1)
        /\ outcome = <<>>
        /\ evaluated = {}
        /\ twice = {}
        /\ primLog = <<>>
        /\ srcToStore = <<>>
        /\ readOnlyMode = FALSE
        /\ storeLog = <<>>

NextLookup == EvalVar \/ ForceOther \/ RetVar

SpecLookup == InitLookup /\ [][NextLookup]_vars

(***************************************************************************)
(* C1.  lookupVar: a regular binding of the name in the innermost          *)
(* environment of the `up' chain that has one wins, whatever `with' frames *)
(* there are; without any regular binding the outermost `with' frame whose *)
(* attribute set has the name wins; without either, the lookup throws the  *)
(* undefined-variable error.                                               *)
(***************************************************************************)
\* The environments from env outwards, innermost first.
RECURSIVE UpChain(_)
UpChain(env) == IF env = Nil THEN <<>> ELSE <<env[2]>> \o UpChain(envs[env[2]].up)

HasRegular(i, name) == name \in DOMAIN binds[envs[i].b]
HasWith(i, name) ==
    /\ sWith \in DOMAIN binds[envs[i].b]
    /\ name \in DOMAIN binds[vals[binds[envs[i].b][sWith]].a[2]]
WithCell(i, name) == binds[vals[binds[envs[i].b][sWith]].a[2]][name]

C1_LookupVar ==
    [][(ctl.op = "eval" /\ ctl.e.k = "Var" /\ IsEnvP(ctl.env)) =>
        LET name == ctl.e.name
            ch == UpChain(ctl.env)
            regs == {i \in 1..Len(ch) : HasRegular(ch[i], name)}
            withs == {i \in 1..Len(ch) : HasWith(ch[i], name)}
        IN  IF regs # {}
            THEN LET i == CHOOSE i \in regs : \A j \in regs : i <= j
                 IN  ctl' = Force(binds[envs[ch[i]].b][name])
            ELSE IF withs # {}
            THEN LET i == CHOOSE i \in withs : \A j \in withs : i >= j
                 IN  ctl' = Force(WithCell(ch[i], name))
            ELSE ctl' = Throw("UndefinedVariable")]_vars

\* The name was resolved through `with' frames, two of which have it, and
\* an environment with regular bindings (but not this one) lies on the chain.
C1_Witness ==
    /\ ctl.op = "force"
    /\ stack # <<>>
    /\ Top.f = "Var"
    /\ LET ch == UpChain(Top.env)
       IN  /\ \A i \in 1..Len(ch) : ~HasRegular(ch[i], Top.e.name)
           /\ \E i, j \in 1..Len(ch) :
                /\ i < j
                /\ HasWith(ch[i], Top.e.name)
                /\ HasWith(ch[j], Top.e.name)
                /\ ctl.v = WithCell(ch[j], Top.e.name)
           /\ \E i \in 1..Len(ch) : binds[envs[ch[i]].b] # <<>> /\ ~HasWith(ch[i], Top.e.name)
                                     /\ sWith \notin DOMAIN binds[envs[ch[i]].b]

(***************************************************************************)
(* C2.  While forceValue evaluates a thunk the value carries the Blackhole *)
(* tag, so that a demand (forceValue) reaching the same value before its   *)
(* evaluation has finished fails with the infinite-recursion error.  The   *)
(* formula states it at the demand: forceValue is entered on a value whose *)
(* forcing is pending on the stack only with that value tagged Blackhole.  *)
(***************************************************************************)
Forcing(v) == \E i \in 1..Len(stack) : stack[i].f = "Force" /\ stack[i].v = v

C2_BlackholeWhileForcing ==
    (ctl.op = "force" /\ Forcing(ctl.v)) => vals[ctl.v].type = "Blackhole"

(***************************************************************************)
(* C3.  When forcing a thunk fails, the value is afterwards the original   *)
(* thunk again, with the expression and the environment it had (so that    *)
(* forcing it again runs the same evaluation), and not a Blackhole.        *)
(***************************************************************************)
C3_ThunkRestored ==
    [][(ctl.op = "throw" /\ stack # <<>> /\ Top.f = "Force") =>
          /\ vals'[Top.v].type = "Thunk"
          /\ vals'[Top.v].a = Top.orig.a
          /\ vals'[Top.v].b = Top.orig.b]_vars

(***************************************************************************)
(* C4.  Memoization: a thunk whose forcing succeeded has been overwritten  *)
(* in place by its result; a later demand of the same value finds the      *)
(* result there and returns it without evaluating the expression again, so *)
(* no thunk value is evaluated successfully more than once.                *)
(***************************************************************************)
ForcedTypes ==
    {"Int", "Bool", "Null", "Str", "Path", "Attrs", "List", "Lambda", "PrimOp", "PrimOpApp"}

C4_Memoization ==
    /\ twice = {}
    /\ \A v \in evaluated : Forcing(v) \/ vals[v].type \in ForcedTypes

\* A variable reference demands a value that was evaluated before.
C4_Witness ==
    /\ ctl.op = "force"
    /\ ctl.v \in evaluated
    /\ stack # <<>>
    /\ Top.f = "Var"
    /\ vals[ctl.v].type = "PrimOpApp"

(***************************************************************************)
(* C5.  After a successful forceValue(v), and in the output of a           *)
(* successful eval, the tag is none of Thunk, Blackhole, Copy, App.        *)
(***************************************************************************)
C5_ForcedTag ==
    (ctl.op = "ret" /\ ctl.of \in {"eval", "force"}) => vals[ctl.v].type \in ForcedTypes

\* forceValue returns from a Copy whose target was a thunk.
C5_Witness ==
    /\ ctl.op = "ret"
    /\ ctl.of = "force"
    /\ stack # <<>>
    /\ Top.f = "ForceCopy"
    /\ ctl.v \in evaluated

(***************************************************************************)
(* C6.  Laziness: evaluating an attribute set literal, a recursive set, a  *)
(* list literal or a call does not evaluate the binding, element or        *)
(* argument expressions.  Such an expression is evaluated only by          *)
(* forceValue on the thunk made for it, that is, when it is demanded; so   *)
(* `let x = <failing> in 1' succeeds.                                      *)
(***************************************************************************)
\* The proper subexpressions of e, each with the kind of its position: lazy
\* when eval makes a thunk for it, strict when eval evaluates it at once.
RECURSIVE Sub(_)
Pos(e, lazy) == {[e |-> e, lazy |-> lazy]} \cup Sub(e)

Sub(e) ==
    CASE e.k \in {"Var", "Int", "Str", "Path"} -> {}
      [] e.k = "ConcatStrings" -> UNION {Pos(e.es[i], FALSE) : i \in DOMAIN e.es}
      [] e.k \in {"Attrs", "List"} ->
            UNION {Pos(IF e.k = "List" THEN e.es[i] ELSE e.es[i].e, TRUE) : i \in DOMAIN e.es}
      [] e.k = "Rec" ->
            UNION {Pos(e.rbnds[i].e, TRUE) : i \in DOMAIN e.rbnds}
            \cup UNION {Pos(e.nrbnds[i].e, TRUE) : i \in DOMAIN e.nrbnds}
      [] e.k = "Select" -> Pos(e.e1, FALSE)
      [] e.k = "Function" ->
            Pos(e.body, FALSE)
            \cup (IF e.pat.p = "VarPat" THEN {}
                  ELSE UNION {IF e.pat.formals[i].def.d = "NoDefaultValue" THEN {}
                              ELSE Pos(e.pat.formals[i].def.e, TRUE) :
                              i \in DOMAIN e.pat.formals})
      [] e.k = "Call" -> Pos(e.fun, FALSE) \cup Pos(e.arg, TRUE)
      [] e.k = "With" -> Pos(e.attrs, FALSE) \cup Pos(e.body, FALSE)
      [] e.k \in {"OpEq", "OpNEq", "OpUpdate"} -> Pos(e.e1, FALSE) \cup Pos(e.e2, FALSE)
      [] e.k = "If" -> Pos(e.e1, FALSE) \cup Pos(e.e2, FALSE) \cup Pos(e.e3, FALSE)

\* The expressions of the program that occur in lazy positions only.
LazyOnly ==
    {s.e : s \in {t \in Sub(Prog) : t.lazy}} \ {s.e : s \in {t \in Sub(Prog) : ~t.lazy}}

C6_Laziness ==
    /\ (ctl.op = "eval" /\ ctl.e \in LazyOnly) =>
          /\ stack # <<>>
          /\ Top.f = "Force"
          /\ Top.v = ctl.v
          /\ Top.orig.type = "Thunk"
          /\ Top.orig.b = <<"expr", ctl.e>>
    /\ Prog = LetBottom => \A i \in DOMAIN outcome : outcome[i] = "ok"

\* `let x = <failing> in 1' has been evaluated: x is a thunk still.
C6_Witness ==
    /\ Prog = LetBottom
    /\ Len(outcome) = MaxDemands
    /\ \E v \in DOMAIN vals : vals[v].type = "Thunk" /\ vals[v].b = <<"expr", Bottom>>

(***************************************************************************)
(* C7.  Partial application of a primop of arity n: each of the first      *)
(* n - 1 applications returns a PrimOpApp value that holds the argument    *)
(* and the number of arguments still missing, and calls nothing; the n-th  *)
(* application calls the primop once, with the n arguments in the order    *)
(* they were supplied.                                                     *)
(***************************************************************************)
PrimOpArity(fun) == vals[findPrimOp(fun)].b[2]

C7_PartialApplication ==
    [][(ctl.op = "call" /\ vals[ctl.fun].type \in {"PrimOp", "PrimOpApp"}) =>
          LET supplied == vals[ctl.fun].h
              arity == PrimOpArity(ctl.fun)
          IN  IF Len(supplied) + 1 < arity
              THEN /\ ctl' = Ret("call", ctl.v)
                   /\ primLog' = primLog
                   /\ vals'[ctl.v].type = "PrimOpApp"
                   /\ vals'[ctl.v].c = <<"int", arity - Len(supplied) - 1>>
                   /\ vals'[vals'[ctl.v].b[2]] = vals[ctl.arg]
                   /\ vals'[vals'[ctl.v].a[2]] = vals[ctl.fun]
              ELSE /\ Len(supplied) + 1 = arity
                   /\ \/ ctl'.op = "crashed"
                      \/ /\ ctl'.op = "primop"
                         /\ Len(ctl'.args) = arity
                         /\ ctl'.args = Append(supplied, ctl.arg)
                         /\ ctl'.fun = vals[findPrimOp(ctl.fun)].a[2]
                         /\ Len(primLog') = Len(primLog) + 1]_vars

\* __prim3 1 2 3: the primop is called once, with 1, 2 and 3 in this order.
C7_Witness ==
    /\ Len(primLog) = 1
    /\ Len(primLog[1].args) = 3
    /\ \A i \in 1..3 : primLog[1].args[i].b = <<"expr", IntLit(i)>>
    /\ ctl.op = "primop"

(***************************************************************************)
(* C8.  Call of a lambda with an attribute-set pattern on an attribute     *)
(* set: MissingArgument exactly when a formal without default is absent    *)
(* from the argument; otherwise UnexpectedArgument exactly when there is   *)
(* no ellipsis and the argument has an attribute that is no formal;        *)
(* otherwise the body is evaluated in a new environment, child of the      *)
(* lambda's, that binds each formal to the argument's attribute when it is *)
(* present and else to a thunk of the default evaluated in that new        *)
(* environment.                                                            *)
(***************************************************************************)
C8_AttrsPattern ==
    [][(/\ ctl.op = "ret"
        /\ stack # <<>>
        /\ Top.f = "CallAttrs"
        /\ vals[Top.arg].type = "Attrs") =>
          LET pat == vals[Top.fun].b[2]
              formals == pat.formals
              actual == binds[vals[Top.arg].a[2]]
              missing == {i \in DOMAIN formals :
                             /\ formals[i].name \notin DOMAIN actual
                             /\ formals[i].def.d = "NoDefaultValue"}
              b == envs[Top.env2].b
          IN  IF missing # {} THEN ctl' = Throw("MissingArgument")
              ELSE IF ~pat.ellipsis /\ ~(DOMAIN actual \subseteq Names(formals))
              THEN ctl' = Throw("UnexpectedArgument")
              ELSE /\ ctl' = Eval(EnvP(Top.env2), vals[Top.fun].c[2], Top.v)
                   /\ envs'[Top.env2].up = vals[Top.fun].a
                   /\ binds[b] = <<>>
                   /\ Names(formals) \subseteq DOMAIN binds'[b]
                   /\ \A i \in DOMAIN formals :
                         LET c == vals'[binds'[b][formals[i].name]]
                         IN  IF formals[i].name \in DOMAIN actual
                             THEN c.type = "Copy" /\ c.a = ValP(actual[formals[i].name])
                             ELSE /\ c.type = "Thunk"
                                  /\ c.a = EnvP(Top.env2)
                                  /\ c.b = <<"expr", formals[i].def.e>>]_vars

\* ({ x, y ? x }: [ x y ]) { x = 1; } has been evaluated in full: y's default
\* was evaluated in the new environment and found x there.
C8_Witness ==
    /\ Prog = Call(Function(AttrsPat(<<Formal("x", NoDefaultValue),
                                        Formal("y", DefaultValue(Var("x")))>>,
                                      FALSE, sNoAlias),
                             List(<<Var("x"), Var("y")>>)),
                    Attrs(<<Bind("x", IntLit(1))>>))
    /\ ctl.op = "ret"
    /\ ctl.of = "strictForce"
    /\ ctl.v = root
    /\ vals[root].type = "List"
    /\ vals[vals[root].b[2] + 1].type = "Int"
    /\ vals[vals[root].b[2] + 1].a = <<"int", 1>>

(***************************************************************************)
(* C9 as stated: the evaluation of `let f = x: f x; in f 1' ends with the  *)
(* error InfiniteRecursion.                                                *)
(***************************************************************************)
C9_EndsWithInfiniteRecursion ==
    (Prog = LoopProg /\ (ctl.op = "crashed" \/ (ctl.op = "idle" /\ outcome # <<>>))) =>
        (outcome # <<>> /\ outcome[1] = "InfiniteRecursion")

(***************************************************************************)
(* C9.  The evaluation of `let f = x: f x; in f 1' never throws: no value  *)
(* that is being forced is demanded again, no error is raised and no       *)
(* result is returned; every call of f goes deeper into the host stack,    *)
(* and the evaluation ends only when that stack is exhausted.              *)
(***************************************************************************)
C9_NoInfiniteRecursion ==
    Prog = LoopProg =>
        /\ ctl.op \notin {"throw", "ub"}
        /\ outcome = <<>>
        /\ ctl.op = "force" => ~Forcing(ctl.v)
        /\ ctl.op = "crashed" => (ctl.why = "stack overflow" /\ Len(stack) = MaxDepth)

C9_Witness ==
    /\ Prog = LoopProg
    /\ ctl = Crashed("stack overflow")
    /\ Cardinality({i \in DOMAIN stack : stack[i].f = "CallFunction"}) >= 3

(***************************************************************************)
(* C10 as stated: eqValues returns true on two attribute sets only when    *)
(* they have identical key sets (and every attribute's values are equal).  *)
(***************************************************************************)
C10_AttrsEqualKeys ==
    [][(/\ ctl.op = "ret"
        /\ stack # <<>>
        /\ Top.f \in {"EqValues2", "EqValuesAttrs"}
        /\ vals[Top.v1].type = "Attrs"
        /\ vals[Top.v2].type = "Attrs"
        /\ ctl' = RetBool("eqValues", TRUE)) =>
          DOMAIN binds[vals[Top.v1].a[2]] = DOMAIN binds[vals[Top.v2].a[2]]]_vars

(***************************************************************************)
(* C11 as stated: eqValues(v, v) is true for every value v that is not     *)
(* itself a function, whatever its elements, and false for every function. *)
(* The two operands are the same value when their cells are equal.         *)
(***************************************************************************)
FunTypes == {"Lambda", "PrimOp", "PrimOpApp"}

\* eqValues(Top.v1, Top.v2) returns in this step, and v1 and v2 are the same value.
SelfEqReturns ==
    /\ ctl.op = "ret"
    /\ stack # <<>>
    /\ Top.f \in {"EqValues2", "EqValuesList", "EqValuesAttrs"}
    /\ vals[Top.v1] = vals[Top.v2]
    /\ ctl'.op = "ret"
    /\ ctl'.of = "eqValues"

C11_Reflexive ==
    [][SelfEqReturns => (ctl'.val = (vals[Top.v1].type \notin FunTypes))]_vars

(***************************************************************************)
(* C11.  When eqValues(v, v) returns, it returns true exactly when v is no *)
(* function and holds no function among its list elements and attribute    *)
(* values, at any depth; so it is false for every function and also for    *)
(* every list or attribute set that holds a function.                      *)
(***************************************************************************)
RECURSIVE ContainsFunction(_)
ContainsFunction(c) ==
    LET v == vals[c]
    IN  CASE v.type \in FunTypes -> TRUE
          [] v.type = "List" -> \E n \in 0..(v.a[2] - 1) : ContainsFunction(v.b[2] + n)
          [] v.type = "Attrs" ->
                \E nm \in DOMAIN binds[v.a[2]] : ContainsFunction(binds[v.a[2]][nm])
          [] v.type = "Copy" -> ContainsFunction(v.a[2])
          [] OTHER -> FALSE

C11_ReflexiveUnlessFunction ==
    [][SelfEqReturns => (ctl'.val = ~ContainsFunction(Top.v1))]_vars

\* let x = [ (x: x) ]; in x == x: the list is found unequal to itself.
C11_Witness ==
    /\ ctl = RetBool("eqValues", FALSE)
    /\ stack # <<>>
    /\ Top.f = "Eq3"
    /\ vals[Top.v1] = vals[Top.v2]
    /\ vals[Top.v1].type = "List"
    /\ ContainsFunction(Top.v1)

(***************************************************************************)
(* The string a forced value is coerced to with coerceMore = true and      *)
(* copyToStore = false, with the separator rule as a parameter: after(n)   *)
(* says that the separator after element n is left out when element n is   *)
(* an empty list, and else when element n + 1 is.                          *)
(***************************************************************************)
IsEmptyList(c) == vals[c].type = "List" /\ vals[c].a[2] = 0

RECURSIVE Coerced(_, _)
RECURSIVE Joined(_, _, _)
Coerced(c, after) ==
    LET v == vals[c]
    IN  CASE v.type = "Str" -> v.a[2]
          [] v.type = "Path" -> canonPath(v.a[2])
          [] v.type = "Int" -> <<ToString(v.a[2])>>
          [] v.type = "Bool" -> IF v.a[2] THEN <<"1">> ELSE <<>>
          [] v.type = "Null" -> <<>>
          [] v.type = "Attrs" -> Coerced(binds[v.a[2]]["outPath"], after)
          [] v.type = "List" -> Joined(c, 0, after)

Joined(c, n, after) ==
    LET v == vals[c]
        elem == v.b[2] + n
    IN  IF n >= v.a[2] THEN <<>>
        ELSE Coerced(elem, after)
             \o (IF n < v.a[2] - 1 /\ ~IsEmptyList(IF after THEN elem ELSE elem + 1)
                 THEN <<" ">> ELSE <<>>)
             \o Joined(c, n + 1, after)

\* coerceToString(v, context, true, copyToStore) returns in this step, and v
\* is a list.
CoerceListReturns ==
    /\ ctl.op = "ret"
    /\ stack # <<>>
    /\ Top.f \in {"Coerce1", "CoerceList"}
    /\ Top.c.coerceMore
    /\ vals[Top.c.v].type = "List"
    /\ ctl'.op = "ret"
    /\ ctl'.of = "coerceToString"

(***************************************************************************)
(* C12 as stated: the coercion of a list is the coercions of its elements  *)
(* in order, with a space between consecutive elements except before an    *)
(* element that is an empty list.                                          *)
(***************************************************************************)
C12_NoSeparatorBeforeEmptyList ==
    [][CoerceListReturns => ctl'.s = Coerced(Top.c.v, FALSE)]_vars

(***************************************************************************)
(* C12.  The coercion of a list is the coercions of its elements in order, *)
(* with a space between consecutive elements except after an element that  *)
(* is an empty list.                                                       *)
(***************************************************************************)
C12_NoSeparatorAfterEmptyList ==
    [][CoerceListReturns => ctl'.s = Coerced(Top.c.v, TRUE)]_vars

\* toString [ [] 1 [] ] is "1 ".
C12_Witness ==
    /\ Prog = Call(Var("toString"), List(<<List(<<>>), IntLit(1), List(<<>>)>>))
    /\ ctl = RetStr(<<"1", " ">>, {})
    /\ stack # <<>>
    /\ Top.f = "PrimToString"

(***************************************************************************)
(* What the components of a string concatenation are and give,             *)
(* independently of the loop: the value of a component (an attribute set   *)
(* stands for its outPath), its string and the context it contributes.     *)
(***************************************************************************)
RECURSIVE PartValue(_)
PartValue(v) ==
    IF v.type = "Attrs" THEN PartValue(vals[binds[v.a[2]]["outPath"]]) ELSE v

PartString(v, firstIsPath) ==
    LET w == PartValue(v)
    IN  IF w.type = "Str" THEN w.a[2]
        ELSE IF firstIsPath THEN canonPath(w.a[2])
        ELSE storePathOf(canonPath(w.a[2]))

PartContext(v, firstIsPath) ==
    LET w == PartValue(v)
    IN  IF w.type = "Str" THEN w.b[2]
        ELSE IF firstIsPath THEN {}
        ELSE {storePathOf(canonPath(w.a[2]))}

RECURSIVE Flatten(_)
Flatten(ss) == IF ss = <<>> THEN <<>> ELSE ss[1] \o Flatten(Tail(ss))

\* The components of the concatenation of frame fr, the one just coerced included.
Parts(fr) == Append(fr.parts, vals[fr.vStr])

\* All components of the concatenation on top have been coerced.
ConcatEnds ==
    /\ ctl.op = "ret"
    /\ stack # <<>>
    /\ Top.f = "Concat2"
    /\ Top.i = Len(Top.e.es)

\* The frame that called the coerceToString whose frame is on top: below that
\* frame and the frames of coerceToString on outPath attributes.
Coercer ==
    stack[CHOOSE j \in 1..(Len(stack) - 1) :
              /\ stack[j].f # "Coerce2"
              /\ \A k \in (j + 1)..(Len(stack) - 1) : stack[k].f = "Coerce2"]

\* coerceToString meets a path while it coerces for a concatenation whose
\* first component is a path.
PathInPathConcat ==
    /\ ctl.op = "ret"
    /\ Len(stack) >= 2
    /\ Top.f = "Coerce1"
    /\ vals[Top.c.v].type = "Path"
    /\ Coercer.f = "Concat2"
    /\ Parts(Coercer)[1].type = "Path"

(***************************************************************************)
(* C13.  A string concatenation whose components have all been evaluated   *)
(* and coerced.  First component a Path: EvalError exactly when some       *)
(* component contributes a non-empty context, and else the result is the   *)
(* Path of the concatenated strings; no path met by its coercions is        *)
(* copied to the store.  First component not a Path: the result is a Str   *)
(* whose context is the union of the components' contexts, the store path  *)
(* of every Path component included.                                       *)
(***************************************************************************)
C13_ConcatStrings ==
    [][/\ ConcatEnds =>
            LET parts == Parts(Top)
                firstIsPath == parts[1].type = "Path"
                str == Flatten([i \in DOMAIN parts |-> PartString(parts[i], firstIsPath)])
                ctx == UNION {PartContext(parts[i], firstIsPath) : i \in DOMAIN parts}
            IN  IF firstIsPath
                THEN IF ctx # {} THEN ctl' = Throw("EvalError")
                     ELSE /\ ctl' = Ret("eval", Top.v)
                          /\ vals'[Top.v].type = "Path"
                          /\ vals'[Top.v].a = <<"path", str>>
                ELSE /\ ctl' = Ret("eval", Top.v)
                     /\ vals'[Top.v].type = "Str"
                     /\ vals'[Top.v].a = <<"str", str>>
                     /\ vals'[Top.v].b = <<"ctx", ctx>>
       /\ PathInPathConcat =>
            /\ storeLog' = storeLog
            /\ srcToStore' = srcToStore
            /\ ctl' = RetStr(canonPath(vals[Top.c.v].a[2]), Top.c.context)]_vars

\* /p + ("" + /q): the second component brings the context of a store path.
C13_Witness ==
    /\ ConcatEnds
    /\ Len(Top.parts) = 1
    /\ Top.parts[1].type = "Path"
    /\ vals[Top.vStr].type = "Str"
    /\ vals[Top.vStr].b[2] # {}

(***************************************************************************)
(* C14.  Coercions of paths with copyToStore = true: the store is asked at *)
(* most once about a canonical path.  The first coercion asks the store    *)
(* (addToStore, or computeStorePathForPath in read-only mode) and records  *)
(* the answer in srcToStore; every later one returns the recorded store    *)
(* path and leaves the store alone; each adds the store path to the        *)
(* caller's context.                                                       *)
(***************************************************************************)
\* coerceToString copies the path in Top.c.v to the store.
CopiesPath ==
    /\ ctl.op = "ret"
    /\ stack # <<>>
    /\ Top.f = "Coerce1"
    /\ vals[Top.c.v].type = "Path"
    /\ Top.c.copyToStore
    /\ ~isDerivation(canonPath(vals[Top.c.v].a[2]))

Asked == {storeLog[i].path : i \in DOMAIN storeLog}

C14_StoreOncePerPath ==
    [][/\ \A i, j \in DOMAIN storeLog' : storeLog'[i].path = storeLog'[j].path => i = j
       /\ DOMAIN srcToStore' = {storeLog'[i].path : i \in DOMAIN storeLog'}
       /\ CopiesPath =>
            LET path == canonPath(vals[Top.c.v].a[2])
            IN  /\ ctl'.op = "ret"
                /\ ctl'.context = Top.c.context \cup {ctl'.s}
                /\ srcToStore'[path] = ctl'.s
                /\ IF path \in Asked
                   THEN /\ storeLog' = storeLog
                        /\ srcToStore' = srcToStore
                   ELSE /\ storeLog' = Append(storeLog,
                                [op |-> IF readOnlyMode THEN "computeStorePathForPath"
                                        ELSE "addToStore",
                                 path |-> path])
                        /\ ctl'.s = storePathOf(path)
       /\ ~CopiesPath => (storeLog' = storeLog /\ srcToStore' = srcToStore)]_vars

\* "" + /a/./p + /a/b/../p: the third component is another spelling of the
\* second and gets the store path recorded for it.
C14_Witness ==
    /\ ctl.op = "ret"
    /\ ctl.of = "coerceToString"
    /\ stack # <<>>
    /\ Top.f = "Concat2"
    /\ Top.i = 3
    /\ Len(Top.parts) = 2
    /\ Top.parts[2].type = "Path"
    /\ vals[Top.vStr].type = "Path"
    /\ Top.parts[2].a # vals[Top.vStr].a
    /\ Len(storeLog) = 1
    /\ ctl.s = srcToStore[storeLog[1].path]

====
